---- MODULE Spec2Model ----
(***************************************************************************)
(* Model of the nexke scheduler (task/sched.c, task/thread.c, task.h) on   *)
(* a single CPU, together with the part of the trap dispatcher             *)
(* (platform/interrupt.c) that brackets hardware interrupts with the       *)
(* preemption-disable counter.                                             *)
(*                                                                         *)
(* The machine state is held in the variables thread (one record per       *)
(* thread slot), ccb (the CPU control block), nkThreadsLock, nkTerminator, *)
(* halt and pc.  Every kernel routine is an operator that maps a machine   *)
(* state record to the machine state record it leaves behind; a routine    *)
(* that spins forever on a held spinlock, loops forever, or fails an       *)
(* assertion leaves halt set and every later step of the sequence is       *)
(* skipped.  ev and hist are history variables: ev describes the           *)
(* operation that produced the state, hist counts per-wait and per-thread  *)
(* events.                                                                 *)
(***************************************************************************)
EXTENDS Integers, Sequences, FiniteSets, TLC

\* ---------------------------------------------------------------- bounds
\* Cap on the nesting of TskDisablePreempt.
MaxPreemptDisable == 1
\* Cap on the tick ordinal kept in hist (ticks beyond it count as it).
MaxTicks == 7

\* Cap on the PltRaiseIpl calls open at a time, and on the nesting of traps.
MaxIplNest == 2
MaxTrapNest == 2

\* Calls of the page allocator that are followed.
MaxPageOps == 5

\* Pages of the boot arena, and calls of the region allocator that are
\* followed.
KvPages == 40

MaxKvOps == 5

\* ------------------------------------------------------ program constants
TSK_THREAD_READY == 0
TSK_THREAD_RUNNING == 1
TSK_THREAD_WAITING == 2
TSK_THREAD_CREATED == 3
TSK_THREAD_TERMINATING == 4

TSK_WAITOBJ_IN_PROG == 0
TSK_WAITOBJ_SUCCESS == 1
TSK_WAITOBJ_TIMEOUT == 2

TSK_POLICY_NORMAL == 0
TSK_POLICY_FIFO == 1
TSK_POLICY_RR == 2

TSK_PRIO_HIGH == 0
TSK_PRIO_KERNEL == 8
TSK_PRIO_USER == 30
TSK_PRIO_WORKER == 63

TSK_TIMESLICE_LEN == 6

\* IPL scale (platform.h): only the order LOW < TIMER < HIGH matters here.
PLT_IPL_LOW == 0
PLT_IPL_TIMER == 30
PLT_IPL_HIGH == 31

\* Thread flag names (task.h TSK_THREAD_IDLE / FIXED_PRIO / FIFO); a flags
\* word is modelled as the set of the flags that are set in it.
TSK_THREAD_IDLE == "IDLE"
TSK_THREAD_FIXED_PRIO == "FIXED_PRIO"
TSK_THREAD_FIFO == "FIFO"

\* Priorities given to threads other than the idle thread: the highest and
\* the two priorities of the preemption scenario (10, TSK_PRIO_USER).  The
\* idle thread (TSK_PRIO_WORKER) is never linked on a ready queue.
PrioSet == {TSK_PRIO_HIGH, 10, TSK_PRIO_USER}

\* The thread slots: the idle thread (TskInitSched), the initial thread and
\* the slot of the thread the initial thread creates (NkMain, t1), which is
\* used again after the thread in it was freed.
IdleTid == 0
InitTid == 1
T1Tid == 2
Tids == {IdleTid, InitTid, T1Tid}
DynTids == {T1Tid}

\* "No thread": a NULL NkThread_t pointer.
NoThread == -1

VARIABLES thread, ccb, nkThreadsLock, nkTerminator, halt, pc, ev, hist, plt,
          pm, kv, mu

vars ==
  <<thread, ccb, nkThreadsLock, nkTerminator, halt, pc, ev, hist, plt, pm,
    kv, mu>>

\* ------------------------------------------------------------ data model

\* A thread slot that holds no thread object (never allocated, or freed).
NoThreadObj ==
  [ alloc |-> FALSE, lock |-> 0, priority |-> 0, state |-> TSK_THREAD_CREATED,
    flags |-> {}, refCount |-> 0, quantaLeft |-> 0, quantum |-> 0,
    preempted |-> FALSE, waitAsserted |-> 0,
    wait |-> [result |-> TSK_WAITOBJ_IN_PROG, timeout |-> 0, waiter |-> NoThread],
    timeoutReg |-> FALSE, cont |-> "none", joinTarget |-> NoThread,
    joinQueue |-> <<>>, joinClosed |-> FALSE ]

\* The machine state as one record.
Machine ==
  [ thread |-> thread, ccb |-> ccb, nkThreadsLock |-> nkThreadsLock,
    nkTerminator |-> nkTerminator, halt |-> halt, ev |-> ev, hist |-> hist,
    plt |-> plt, pm |-> pm, kv |-> kv, mu |-> mu ]

Halted(s) == s.halt # "none"

Halt(s, why) == IF Halted(s) THEN s ELSE [s EXCEPT !.halt = why]

\* A routine that has reached the context switch of tskSetCurrentThread (or
\* the early return of tskSchedule) has handed the CPU over: what remains
\* of its call chain runs when the thread is resumed (see Resume).
Done(s) == Halted(s) \/ s.ev.sel # "none"

\* Sequencing of routine steps: K runs on the state s a step has left
\* behind, unless the step has hung or handed the CPU over.
Then(s, K(_)) == IF Done(s) THEN s ELSE K(s)

\* K applied to the state s0.
Bind(s0, K(_)) == K(s0)

\* Minimum of a non-empty set of integers.
SetMin(S) == CHOOSE x \in S : \A y \in S : x <= y

\* The elements of a sequence.
Range(q) == {q[i] : i \in 1 .. Len(q)}

\* Sequence q without its element at index i.
RemoveAt(q, i) == SubSeq(q, 1, i - 1) \o SubSeq(q, i + 1, Len(q))

\* ------------------------------------------------------------- list.h

NkListAddFront(list, item) == <<item>> \o list

NkListAddBack(list, item) == Append(list, item)

\* Unlinks the first link that is item (a link that is not on the list
\* leaves the list's own links alone).
NkListRemove(list, item) ==
  IF item \in Range(list)
  THEN RemoveAt(list, SetMin({i \in 1 .. Len(list) : list[i] = item}))
  ELSE list

NkListFront(list) == IF list = <<>> THEN NoThread ELSE Head(list)

\* ---------------------------------------------------------- spinlocks
\* A spinlock is a plain busy-wait integer: taking a lock that is held
\* never returns on the single CPU.

NkSpinLockHeld(lockWord) == lockWord # 0

\* The values NkSpinLock and NkSpinUnlock store in the lock word.
NkSpinLocked == 1
NkSpinUnlocked == 0

TskLockRq(s) ==
  IF Done(s) THEN s
  ELSE IF NkSpinLockHeld(s.ccb.rqLock) THEN Halt(s, "spin_rqLock")
  ELSE [s EXCEPT !.ccb.rqLock = NkSpinLocked,
                 !.ev.held.rq = TRUE,
                 !.ev.order = @ \cup (IF s.ev.held.th # {}
                                      THEN {"rq_under_thread"} ELSE {})]

TskUnlockRq(s) ==
  IF Done(s) THEN s
  ELSE [s EXCEPT !.ccb.rqLock = NkSpinUnlocked, !.ev.held.rq = FALSE]

TskLockThread(s, t) ==
  IF Done(s) THEN s
  ELSE IF NkSpinLockHeld(s.thread[t].lock) THEN Halt(s, "spin_threadLock")
  ELSE [s EXCEPT !.thread[t].lock = NkSpinLocked,
                 !.ev.held.th = @ \cup {t}]

TskUnlockThread(s, t) ==
  IF Done(s) THEN s
  ELSE [s EXCEPT !.thread[t].lock = NkSpinUnlocked,
                 !.ev.held.th = @ \ {t}]

LockThreads(s) ==
  IF Done(s) THEN s
  ELSE IF NkSpinLockHeld(s.nkThreadsLock) THEN Halt(s, "spin_nkThreadsLock")
  ELSE [s EXCEPT !.nkThreadsLock = NkSpinLocked]

UnlockThreads(s) ==
  IF Done(s) THEN s ELSE [s EXCEPT !.nkThreadsLock = NkSpinUnlocked]

\* ------------------------------------------------------------------ IPL

PltRaiseIpl_NoCheck(s, newIpl) ==
  IF Done(s) THEN s
  ELSE [s EXCEPT !.ccb.curIpl = newIpl]

PltRaiseIpl(s, newIpl) ==
  IF Done(s) THEN s
  ELSE IF s.ccb.curIpl > newIpl THEN Halt(s, "panic_raise")
  ELSE [s EXCEPT !.ccb.curIpl = newIpl]

PltLowerIpl(s, oldIpl) ==
  IF Done(s) THEN s
  ELSE IF s.ccb.curIpl < oldIpl THEN Halt(s, "panic_lower")
  ELSE [s EXCEPT !.ccb.curIpl = oldIpl]

\* assert (PltGetIpl() == PLT_IPL_HIGH)
AssertIplHigh(s) ==
  IF Done(s) THEN s
  ELSE IF s.ccb.curIpl # PLT_IPL_HIGH THEN Halt(s, "assert_ipl")
  ELSE s

\* Lowest set bit of the ready bitmap, -1 when the bitmap is empty.
CpuScanPriority(mask) == IF mask = {} THEN -1 ELSE SetMin(mask)


\* ------------------------------------------- interrupt core: data model
\* platform.h is not part of the sources at hand: modes, flags and object
\* types are modelled by name.

PLT_MODE_EDGE == "edge"
PLT_MODE_LEVEL == "level"

PLT_HWINT_ACTIVE_LOW == "active_low"
PLT_HWINT_NON_CHAINABLE == "non_chainable"
PLT_HWINT_FORCE_IPL == "force_ipl"
PLT_HWINT_CHAINED == "chained"
PLT_HWINT_INTERNAL == "internal"

PLT_INT_HWINT == "hwint"

\* apic.c: priority classes, vectors per class, highest IPL with a class of
\* its own, and the IPL of every priority class.
PLT_APIC_NUM_PRIORITY == 16
PLT_APIC_PRIO_NUM_VECT == 16
PLT_APIC_MAX_IPL == 25
PLT_APIC_ERROR == 241
PLT_APIC_TIMER == 242
prioToIplMap == <<0, 0, 0, 1, 2, 4, 6, 8, 10, 12, 14, 16, 18, 20, 22, 24>>

PLT_APIC_CLASS_TO_PRI(class) == class * 16
PLT_APIC_PRI_TO_CLASS(pri) == pri \div 16

\* The hardware-interrupt records of the drivers (A and B) and the lines
\* they may ask for.
HwIds == {1, 2}
Gsis == {11, 12}

\* The line number that stands for internalChain, the chain of the
\* interrupts that do not come through the controller's line map, and the
\* chains pltGetChain can return.
PLT_GSI_INTERNAL == 0 - 1
Lines == Gsis \cup {PLT_GSI_INTERNAL}

\* The IPLs software raises to and lowers to in this model, and the IPLs
\* drivers ask for.
IplSet == {PLT_IPL_LOW, 2, 8, 9, PLT_IPL_HIGH}
HwIplSet == {2, 8}

\* A NULL NkInterrupt_t pointer in nkIntTable.
NoInt == [type |-> "none", intChain |-> 0]

\* A record PltInitInterrupt has not been called on.
NoHwInt ==
  [ init |-> FALSE, gsi |-> 0, ipl |-> 0, mode |-> PLT_MODE_EDGE, flags |-> {},
    vector |-> 0 ]

NoChain == [list |-> <<>>, chainLen |-> 0, noRemap |-> FALSE, lock |-> 0]

\* Interrupt core after PltInitInterrupts and the controller's set-up:
\*   hw          the drivers' NkHwInterrupt_t records
\*   chain       platform->intCtrl->lineMap
\*   nkIntTable  the installed NkInterrupt_t objects, by vector (index -1
\*               is the word in front of the table)
\*   vectorMap   the vectors the APIC driver has handed out
\*   redir       the I/O APIC's redirection entries
\*   tpr, isr    the local APIC's task priority and in-service vectors
\*   cpuInts     the CPU's interrupt-enable flag
\*   frames      the PltTrapDispatch activations in progress, innermost last
\*   iplStack    the values PltRaiseIpl has returned and that have not been
\*               handed back to PltLowerIpl, innermost last
InitPlt ==
  [ hw |-> [h \in HwIds |-> NoHwInt],
    chain |-> [g \in Lines |-> NoChain],
    nkIntTable |-> {},
    nkIntTabLock |-> 0,
    vectorMap |-> {},
    redir |-> [g \in Gsis |-> [vector |-> 0, masked |-> TRUE]],
    tpr |-> 0,
    isr |-> <<>>,
    cpuInts |-> TRUE,
    frames |-> <<>>,
    iplStack |-> <<>> ]

\* The events of an operation of the interrupt core:
\*   op        the operation
\*   h, ret    PltConnectInterrupt: the record, and "obj" or "null"
\*   vector    what the controller's connectInterrupt returned
\*   was       PltConnectInterrupt: records, chains, table and interrupt-enable
\*             flag before the call
\*   iplWas, pdWas  CCB IPL and preemption-disable counter before it
\*   n         argument of PltRaiseIpl / PltLowerIpl
\*   iplRet    value PltRaiseIpl returned
\*   paired    PltLowerIpl was given the value of the innermost raise,
\*             pairedBefore is the IPL that held before that raise
\*   entered   a handler has started to execute, at chain IPL enteredIpl
\*             while the interrupted code ran at IPL iplIntr
\*   returned  PltTrapDispatch has returned: how it went ("claimed",
\*             "unclaimed", "spurious"), the line, and IPL and counter at
\*             its entry (lockEntry: the chain lock at its entry)
NoIntEv ==
  [ op |-> "none", h |-> 0, ret |-> "none", vector |-> 0,
    was |-> [chain |-> [g \in Lines |-> NoChain], nkIntTable |-> {},
             cpuInts |-> TRUE, hw |-> [h \in HwIds |-> NoHwInt]],
    iplWas |-> 0, pdWas |-> 0, n |-> 0, iplRet |-> 0,
    paired |-> FALSE, pairedBefore |-> 0,
    entered |-> FALSE, enteredIpl |-> 0, iplIntr |-> 0,
    returned |-> "none", gsi |-> 0, iplEntry |-> 0, pdEntry |-> 0,
    lockEntry |-> 0 ]

\* --------------------------------------------------- page frame allocator
\* Page flags and zone flags are sets of the flag bits below.  The PFN map
\* is one array: the page structures of the zones follow each other in the
\* order the zones were created (pfnMapMark, page.c 187-189), so that index
\* pfnMap + numPages of a zone is the first page structure of the next.

MM_PAGE_FREE == 1
MM_PAGE_IN_OBJECT == 2
MM_PAGE_ALLOCED == 8
MM_ZONE_ALLOCATABLE == 16
MM_ZONE_NO_GENERIC == 32
NEXKE_CPU_PAGESZ == 4096

\* Zones after MmInitPage for a memory map of two free regions: two
\* frames from PFN 1 (low memory, generic allocations banned) and three
\* frames from PFN 8.  freeHint is the second zone (page.c 674-715).
InitZones ==
  <<[ pfn |-> 1, numPages |-> 2, freeCount |-> 2, pfnMap |-> 0, lock |-> 0,
      flags |-> {MM_ZONE_ALLOCATABLE, MM_ZONE_NO_GENERIC} ],
    [ pfn |-> 8, numPages |-> 3, freeCount |-> 3, pfnMap |-> 2, lock |-> 0,
      flags |-> {MM_ZONE_ALLOCATABLE} ]>>

\* Number of page structures in the PFN map, and the zone and PFN of each
\* (fields zone and pfn of MmPage_t, set once by mmInitPage).
NumPfn == InitZones[1].numPages + InitZones[2].numPages

PageZone(p) == IF p < InitZones[2].pfnMap THEN 1 ELSE 2

PagePfn(p) == InitZones[PageZone(p)].pfn + (p - InitZones[PageZone(p)].pfnMap)

\* List links are records of prev and next; a link is named by the page
\* index it lies in, the free list head of zone z by -z and the list head of
\* the page hash bucket by -3 (with mmNumBuckets a power of two of at most
\* NEXKE_CPU_PAGESZ, MM_GET_BUCKET maps every page-aligned offset of a
\* page-aligned object to bucket 0).
BucketHead == -3

\* NkListAddFront and NkListRemove on the links.
LinkAddFront(link, list, item) ==
  [link EXCEPT ![item] = [next |-> link[list].next, prev |-> list],
               ![link[list].next].prev = item,
               ![list].next = item]

LinkRemove(link, item) ==
  [link EXCEPT ![link[item].next].prev = link[item].prev,
               ![link[item].prev].next = link[item].next]

\* mmInitPage for every page of every zone: all pages FREE and linked at
\* the front of the free list of their zone in index order.
InitPm ==
  [ page |-> [p \in 0 .. NumPfn - 1 |->
                [flags |-> {MM_PAGE_FREE}, fixCount |-> 0, obj |-> 0, offset |-> 0]],
    link |-> [n \in -3 .. NumPfn - 1 |->
                IF n = BucketHead THEN [next |-> BucketHead, prev |-> BucketHead]
                ELSE IF n < 0
                THEN [ next |-> InitZones[-n].pfnMap + InitZones[-n].numPages - 1,
                       prev |-> InitZones[-n].pfnMap ]
                ELSE [ next |-> IF n = InitZones[PageZone(n)].pfnMap
                                THEN -PageZone(n) ELSE n - 1,
                       prev |-> IF n = InitZones[PageZone(n)].pfnMap
                                       + InitZones[PageZone(n)].numPages - 1
                                THEN -PageZone(n) ELSE n + 1 ]],
    zone |-> InitZones,
    mmFreePages |-> NumPfn,
    freeHint |-> 2,
    pageList |-> <<>>,
    misuse |-> FALSE,
    ops |-> 0 ]

\* The events of an operation of the page allocator: the operation, its
\* arguments, the page returned (-1 for NULL), the zone mmZoneFindBest
\* returned (0 for NULL).
NoPmEv ==
  [ op |-> "none", page |-> -1, count |-> 0, maxAddr |-> 0, align |-> 0,
    ret |-> -1, zone |-> 0 ]

\* ------------------------------------------------------- kvmm.c: data

MM_KV_MAX_FREELIST == 12
MM_KV_REFILL_VAL == 8
MM_KV_REFILL_MIN == 4
MM_KV_MAX_BUCKETS == 5
\* 0xDEADBEEF, as the signed 32-bit number with these bits.
MM_KV_FOOTER_MAGIC == 0 - 559038737
MM_KV_NO_DEMAND == 1
MM_BUCKET_32PLUS == 4

\* The arena is the boot arena MmInitKvm1 builds (needsMap is false; it is
\* the only arena until MmInitKvm2 runs).  KvStart is the address of its
\* first allocatable page, arena->start + resvdSz pages; the region
\* structure of page i is entry i of the array in the reserved area.
\* Entry KvPages, the one behind the last page, lies in the reserved area
\* as well and is never written by MmInitKvm1.
KvStart == 8 * NEXKE_CPU_PAGESZ

\* List nodes: the region structures, the bucket lists (bucket b is node
\* -(b+1)), the free list of single pages, and address 0.  memset leaves
\* every list head with next = prev = NULL, and the list routines then
\* store through NULL at the end of a list: KvNull stands for the two
\* words at address 0.
KvBucketNode(b) == 0 - (b + 1)

KvFreeList == 0 - (MM_KV_MAX_BUCKETS + 1)

KvNull == 0 - (MM_KV_MAX_BUCKETS + 2)

\* A region structure nothing has written yet.  written: vaddr and
\* numPages (the two words a footer overlays) hold a value the kernel
\* stored; init: the whole structure does.
KvNoRegion ==
  [ vaddr |-> 0, numPages |-> 0, isFree |-> FALSE, written |-> FALSE,
    init |-> FALSE ]

\* Stores a footer for the region of sz pages at base: the footer overlays
\* the first two words of the region structure of the region's last page.
KvSetFooter(region, i, sz) ==
  [region EXCEPT ![i].vaddr = MM_KV_FOOTER_MAGIC, ![i].numPages = sz,
                 ![i].written = TRUE]

\* MmInitKvm1: one region over the whole arena, zeroed and given its size
\* and address, its footer, linked at the front of the last bucket.
InitKv ==
  [ region |->
      KvSetFooter(
        [i \in 0..KvPages |->
           IF i = 0
           THEN [ vaddr |-> KvStart, numPages |-> KvPages, isFree |-> FALSE,
                  written |-> TRUE, init |-> TRUE ]
           ELSE KvNoRegion],
        KvPages - 1, KvPages),
    link |->
      LinkAddFront([n \in KvNull..KvPages |-> [next |-> KvNull, prev |-> KvNull]],
                   KvBucketNode(MM_BUCKET_32PLUS), 0),
    numPages |-> KvPages,
    numFreePages |-> KvPages,
    freeListSz |-> 0,
    held |-> {},
    needsMap |-> FALSE,
    ops |-> 0 ]

\* ------------------------------------------------- mul.c, page.c: data
\* The MMU layer of the kernel address space and the pages it maps.

MM_PAGE_UNUSABLE == 4
MM_PAGE_FIXED == 32

\* Virtual addresses are 64-bit words of which the hardware translates the
\* low 48; bits 48 to 63 of a canonical address repeat bit 47.  Here bit
\* 47 is bit 20 and one bit, bit 21, stands for bits 48 to 63.
MUL_TOP_ADDR_BIT == 1048576
MUL_CANONICAL_VAL == 2097152
MUL_CANONICAL_MASK == 2097151

mulMakeCanonical(addr) ==
  IF (addr \div MUL_TOP_ADDR_BIT) % 2 = 1
  THEN (addr % MUL_CANONICAL_VAL) + MUL_CANONICAL_VAL
  ELSE addr

mulDecanonical(addr) == addr % (MUL_CANONICAL_MASK + 1)

\* kmemSpace.startAddr, a canonical address of the upper half, and the
\* kernel address of the arena address p (the arena of the region
\* allocator starts at kmemSpace.startAddr when it is the one MmInitKvm2
\* builds).
KmemStart == MUL_CANONICAL_VAL + MUL_TOP_ADDR_BIT

KmemAddr(p) == KmemStart + p

\* The kernel addresses the model maps: the pages of the arena and
\* MulSpare pages behind it.
MulSpare == 2

MulVaddrs ==
  {KmemAddr(KvStart + i * NEXKE_CPU_PAGESZ) : i \in 0 .. KvPages + MulSpare - 1}

MulSpareVaddrs ==
  {KmemAddr(KvStart + i * NEXKE_CPU_PAGESZ) : i \in KvPages .. KvPages + MulSpare - 1}

\* Page structures of the one allocatable zone, from PFN MulPfnBase on,
\* and the PFN of a device register page, which lies in no zone.
MulPages == 9
MulPfnBase == 16
MulMmioPfn == 1024

\* A PTE that is zero, and a page structure pointer that is NULL.
NoPte == [pfn |-> 0, f |-> FALSE, p |-> FALSE]
NoPage == 0 - 1

\* The page MmFindPagePfn forges for a PFN outside every allocatable zone:
\* a zeroed structure with MM_PAGE_UNUSABLE.  A forged page is never
\* written after that, so all forged pages of a PFN are alike.
MulFakePage == MulPages

\*   pte          the PTEs of the kernel address space, by the address the
\*                hardware translates (p: the present bit, f: PF_F)
\*   numMaps, numFixed   kmemSpace.stats
\*   page         the page structures (maps: the addresses of the
\*                MmPageMap_t list from its head on; offset: the offset in
\*                the kernel object)
\*   free         the free list of the zone, from its head on
\*   bucket       the list of the page hash bucket, from its head on
\*   mmFixedPages the counter of page.c
InitMu ==
  [ pte |-> [a \in {mulDecanonical(v) : v \in MulVaddrs} |-> NoPte],
    numMaps |-> 0,
    numFixed |-> 0,
    page |-> [i \in 0 .. MulPages |->
                [ flags |-> IF i = MulFakePage THEN {MM_PAGE_UNUSABLE}
                            ELSE {MM_PAGE_FREE},
                  fixCount |-> 0, maps |-> <<>>, offset |-> 0, lock |-> 0 ]],
    free |-> [i \in 1 .. MulPages |-> MulPages - i],
    bucket |-> <<>>,
    mmFixedPages |-> 0,
    ops |-> 0 ]

\* What the last call into the MMU layer did: the operation, the address
\* and page it was given, the page MmAllocPage returned, and the counters
\* and the map list of the page before the call.
NoMuEv ==
  [ op |-> "none", virt |-> 0, page |-> NoPage, ret |-> NoPage,
    numMapsWas |-> 0, numFixedWas |-> 0, fresh |-> FALSE, paired |-> FALSE ]

\* What the last call of the region allocator did: the operation, its
\* arguments, the pointer returned (0: NULL), and for a MmFreeKvRegion
\* that directly follows the MmAllocKvRegion that returned its pointer,
\* paired and the shape of the arena before that allocation.
NoKvEv ==
  [ op |-> "none", numPages |-> 0, flags |-> 0, ret |-> 0, reg |-> -1,
    paired |-> FALSE, shape |-> <<>> ]

\* ------------------------------------------------- history bookkeeping

EmptyQueues == [p \in PrioSet |-> <<>>]

NoPreempt ==
  [ called |-> FALSE, pd |-> 0, curBefore |-> NoThread, curAfter |-> NoThread,
    reqAfter |-> FALSE, preemptedAfter |-> FALSE, scheduled |-> FALSE ]

NoClear ==
  [ w |-> NoThread, res |-> TSK_WAITOBJ_IN_PROG, was |-> TSK_WAITOBJ_IN_PROG,
    trueBefore |-> 0, ret |-> FALSE ]

\* The events of an operation that has just started: nothing has happened.
\*   preempt  the last call of tskPreempt
\*   sel      the selection tskSchedule made ("none": none made), selQ the
\*            ready queues it selected from, old the thread it switched from
\*   ret      value returned by the last TskClearWait / TskWaitOnObj
\*   waitRet  thread whose TskWaitOnObj has returned (ret is its value)
\*   tick     for a time-slice tick, its ordinal since the current thread
\*            was made current
\*   ref      thread on which TskRefThread was called, refWas its count before
\*   created  thread object built by TskCreateThread
\*   freed    thread object freed by TskDestroyThread, freedWas its
\*            reference count and state before the call
\*   clear    the last call of TskClearWait: the wait (by its thread), the
\*            result passed, the wait's result before the call and the
\*            number of calls that had returned true since the assertion,
\*            and the value this call returned
\* ev.held   the run-queue lock and the thread locks the running path has
\*           taken and not released since the step began
\* ev.order  the lock acquisitions of the step that were made with a lock
\*           held that comes later in the order chain, run queue, thread
NoLocks == [rq |-> FALSE, th |-> {}]

NoEv ==
  [ preempt |-> NoPreempt, sel |-> "none", selQ |-> EmptyQueues,
    old |-> NoThread, ret |-> "none", waitRet |-> NoThread, tick |-> 0,
    ref |-> NoThread, refWas |-> 0, clear |-> NoClear,
    created |-> NoThread, freed |-> NoThread,
    freedWas |-> [refCount |-> 0, state |-> TSK_THREAD_CREATED],
    int |-> NoIntEv, pm |-> NoPmEv, kv |-> NoKvEv, mu |-> NoMuEv,
    held |-> NoLocks, order |-> {} ]

\* Notes in the current thread where it goes on when it is resumed.
SetCont(s, tag) ==
  IF Done(s) THEN s ELSE [s EXCEPT !.thread[s.ccb.curThread].cont = tag]

\* ------------------------------------------------------------- sched.c

RECURSIVE tskPreempt(_)
RECURSIVE tskSchedule(_)
RECURSIVE tskStopThread(_, _)
RECURSIVE tskReadyThread(_, _)

\* Admits thread t to the ready queue of its priority.
tskReadyThread(s, t) ==
  Then(AssertIplHigh(s), LAMBDA s0 :
    LET th == s0.thread[t]
        q == s0.ccb.readyQueues[th.priority]
        newQ == IF th.preempted
                THEN IF th.quantaLeft = 0
                     THEN NkListAddBack(q, t)
                     ELSE NkListAddFront(q, t)
                ELSE NkListAddBack(q, t)
    IN Bind([s0 EXCEPT !.ccb.readyQueues[th.priority] = newQ,
                       !.ccb.readyMask = @ \cup {th.priority},
                       !.thread[t].preempted = FALSE,
                       !.thread[t].quantaLeft = th.quantum,
                       !.thread[t].state = TSK_THREAD_READY],
            LAMBDA s1 :
              IF th.priority < s1.ccb.curPriority THEN tskPreempt(s1) ELSE s1))

\* tskStopThread that does not re-admit a RUNNING thread to its queue.
tskStopThread_NoReady(s, t) ==
  Then(AssertIplHigh(TskLockThread(s, t)), LAMBDA s0 :
    TskUnlockThread(
      IF s0.thread[t].state = TSK_THREAD_WAITING
      THEN [s0 EXCEPT !.thread[t].waitAsserted = 0]
      ELSE s0,
      t))

\* tskStopThread that leaves waitAsserted set when it parks a WAITING thread.
tskStopThread_KeepsAssert(s, t) ==
  Then(AssertIplHigh(TskLockThread(s, t)), LAMBDA s0 :
    TskUnlockThread(
      IF s0.thread[t].state = TSK_THREAD_RUNNING
      THEN IF TSK_THREAD_IDLE \notin s0.thread[t].flags
           THEN tskReadyThread(s0, t)
           ELSE s0
      ELSE s0,
      t))

\* Hook run on the current thread before another thread is selected.
tskStopThread(s, t) ==
  Then(AssertIplHigh(TskLockThread(s, t)), LAMBDA s0 :
    TskUnlockThread(
      IF s0.thread[t].state = TSK_THREAD_RUNNING
      THEN IF TSK_THREAD_IDLE \notin s0.thread[t].flags
           THEN tskReadyThread(s0, t)
           ELSE s0
      ELSE IF s0.thread[t].state = TSK_THREAD_WAITING
           THEN [s0 EXCEPT !.thread[t].waitAsserted = 0]
           ELSE s0,
      t))

\* tskSetCurrentThread leaving ccb.curPriority as it was.
tskSetCurrentThread_KeepsPriority(s, t) ==
  Then(AssertIplHigh(s), LAMBDA s0 :
    [s0 EXCEPT !.thread[t].state = TSK_THREAD_RUNNING,
               !.ccb.curThread = t,
               !.hist.ticks = 0,
               !.ev.old = s0.ccb.curThread,
               !.ev.sel = IF t = s0.ccb.curThread THEN "same" ELSE "switch"])

\* Makes t the current thread and switches to its context; ev.sel records
\* that the selection has been made and ev.old the thread switched from.
tskSetCurrentThread(s, t) ==
  Then(AssertIplHigh(s), LAMBDA s0 :
    [s0 EXCEPT !.thread[t].state = TSK_THREAD_RUNNING,
               !.ccb.curThread = t,
               !.ccb.curPriority = s0.thread[t].priority,
               !.hist.ticks = 0,
               !.ev.old = s0.ccb.curThread,
               !.ev.sel = IF t = s0.ccb.curThread THEN "same" ELSE "switch"])

\* tskSelect taking the tail of the queue instead of its head.
tskSelect_TakesTail(s, curThread) ==
  LET highPrio == CpuScanPriority(s.ccb.readyMask)
      queue == s.ccb.readyQueues[highPrio]
      nextThread == IF queue = <<>> THEN NoThread ELSE queue[Len(queue)]
      rest == SubSeq(queue, 1, Len(queue) - 1)
  IN
  IF highPrio = -1
  THEN IF s.thread[curThread].state = TSK_THREAD_RUNNING
       THEN [s EXCEPT !.ev.sel = "kept", !.ev.old = curThread,
                      !.ev.selQ = s.ccb.readyQueues]
       ELSE tskSetCurrentThread([s EXCEPT !.ev.selQ = s.ccb.readyQueues],
                                s.ccb.idleThread)
  ELSE IF nextThread = NoThread THEN Halt(s, "null_deref")
  ELSE tskSetCurrentThread(
         [s EXCEPT !.ev.selQ = s.ccb.readyQueues,
                   !.ccb.readyQueues[highPrio] = rest,
                   !.ccb.readyMask = IF NkListFront(rest) = NoThread
                                     THEN @ \ {highPrio} ELSE @],
         nextThread)

\* tskSelect leaving the bitmap bit set when the queue becomes empty.
tskSelect_KeepsMask(s, curThread) ==
  LET highPrio == CpuScanPriority(s.ccb.readyMask)
      queue == s.ccb.readyQueues[highPrio]
      nextThread == NkListFront(queue)
      rest == NkListRemove(queue, nextThread)
  IN
  IF highPrio = -1
  THEN IF s.thread[curThread].state = TSK_THREAD_RUNNING
       THEN [s EXCEPT !.ev.sel = "kept", !.ev.old = curThread,
                      !.ev.selQ = s.ccb.readyQueues]
       ELSE tskSetCurrentThread([s EXCEPT !.ev.selQ = s.ccb.readyQueues],
                                s.ccb.idleThread)
  ELSE IF nextThread = NoThread THEN Halt(s, "null_deref")
  ELSE tskSetCurrentThread(
         [s EXCEPT !.ev.selQ = s.ccb.readyQueues,
                   !.ccb.readyQueues[highPrio] = rest],
         nextThread)

\* The selection of tskSchedule, made after the stop hook has run on
\* curThread.  ev.selQ is the ready queues as they stand at that moment.
tskSelect(s, curThread) ==
  LET highPrio == CpuScanPriority(s.ccb.readyMask)
      queue == s.ccb.readyQueues[highPrio]
      nextThread == NkListFront(queue)
      rest == NkListRemove(queue, nextThread)
  IN
  IF highPrio = -1
  THEN IF s.thread[curThread].state = TSK_THREAD_RUNNING
       THEN [s EXCEPT !.ev.sel = "kept", !.ev.old = curThread,
                      !.ev.selQ = s.ccb.readyQueues]
       ELSE tskSetCurrentThread([s EXCEPT !.ev.selQ = s.ccb.readyQueues],
                                s.ccb.idleThread)
  ELSE IF nextThread = NoThread THEN Halt(s, "null_deref")
  ELSE tskSetCurrentThread(
         [s EXCEPT !.ev.selQ = s.ccb.readyQueues,
                   !.ccb.readyQueues[highPrio] = rest,
                   !.ccb.readyMask = IF NkListFront(rest) = NoThread
                                     THEN @ \ {highPrio} ELSE @],
         nextThread)

\* Selects the next thread to run.
tskSchedule(s) ==
  Then(AssertIplHigh(s), LAMBDA s0 :
    Then(tskStopThread(s0, s0.ccb.curThread), LAMBDA s1 :
      tskSelect(s1, s0.ccb.curThread)))

\* tskPreempt that schedules whatever the preemption-disable counter says.
tskPreempt_AlwaysSchedules(s) ==
  Then(AssertIplHigh(s), LAMBDA s0 :
    Bind(TskUnlockRq(tskSchedule(TskLockRq(
           [s0 EXCEPT !.thread[s0.ccb.curThread].preempted = TRUE,
                      !.ccb.preemptReq = FALSE]))),
         LAMBDA s2 :
           [s2 EXCEPT !.ev.preempt =
              [ called |-> TRUE, pd |-> s0.ccb.preemptDisable,
                curBefore |-> s0.ccb.curThread,
                curAfter |-> s2.ccb.curThread,
                reqAfter |-> s2.ccb.preemptReq,
                preemptedAfter |-> s2.thread[s0.ccb.curThread].preempted,
                scheduled |-> TRUE ]]))

\* Preempts the current thread, now or when preemption is enabled again.
\* ev.preempt describes the call.
tskPreempt(s) ==
  Then(AssertIplHigh(s), LAMBDA s0 :
    Bind(IF s0.ccb.preemptDisable # 0
         THEN [s0 EXCEPT !.thread[s0.ccb.curThread].preempted = TRUE,
                         !.ccb.preemptReq = TRUE]
         ELSE TskUnlockRq(tskSchedule(TskLockRq(
                [s0 EXCEPT !.thread[s0.ccb.curThread].preempted = TRUE,
                           !.ccb.preemptReq = FALSE]))),
         LAMBDA s2 :
           [s2 EXCEPT !.ev.preempt =
              [ called |-> TRUE, pd |-> s0.ccb.preemptDisable,
                curBefore |-> s0.ccb.curThread,
                curAfter |-> s2.ccb.curThread,
                reqAfter |-> s2.ccb.preemptReq,
                preemptedAfter |-> s2.thread[s0.ccb.curThread].preempted,
                scheduled |-> (s0.ccb.preemptDisable = 0) ]]))

\* TskEnablePreemptUnsafe that forgets the pending request.
TskEnablePreemptUnsafe_IgnoresReq(s) ==
  Then(PltRaiseIpl(s, PLT_IPL_HIGH), LAMBDA s0 :
    IF s0.ccb.preemptDisable # 0 THEN Halt(s0, "assert_preemptDisable")
    ELSE PltLowerIpl(s0, s.ccb.curIpl))

\* Enables preemption: runs a preemption that was requested meanwhile.
TskEnablePreemptUnsafe(s) ==
  Then(PltRaiseIpl(s, PLT_IPL_HIGH), LAMBDA s0 :
    IF s0.ccb.preemptDisable # 0 THEN Halt(s0, "assert_preemptDisable")
    ELSE IF s0.ccb.preemptReq
         THEN PltLowerIpl(tskPreempt(SetCont(s0, "sched")), s.ccb.curIpl)
         ELSE PltLowerIpl(s0, s.ccb.curIpl))

TskDisablePreempt(s) ==
  IF Done(s) THEN s ELSE [s EXCEPT !.ccb.preemptDisable = @ + 1]

TskEnablePreempt(s) ==
  Then(s, LAMBDA s0 :
    IF s0.ccb.preemptDisable = 1
    THEN TskEnablePreemptUnsafe([s0 EXCEPT !.ccb.preemptDisable = @ - 1])
    ELSE [s0 EXCEPT !.ccb.preemptDisable = @ - 1])

\* Public wrappers: they take the run-queue lock themselves.
TskSchedule(s) == TskUnlockRq(tskSchedule(TskLockRq(s)))

TskReadyThread(s, t) ==
  TskUnlockRq(TskUnlockThread(
    tskReadyThread(TskLockThread(TskLockRq(s), t), t), t))

\* Readies the waiter of the wait object embedded in thread t.
TskWakeObj(s, t) ==
  Then(s, LAMBDA s0 :
    TskUnlockRq(TskUnlockThread(
      tskReadyThread(
        TskLockThread(TskLockRq(s0), s0.thread[t].wait.waiter),
        s0.thread[t].wait.waiter),
      s0.thread[t].wait.waiter)))

\* TskSetThreadPrio, state sampled as RUNNING.
SetPrioRunning(s, t, newPrio, ipl) ==
  Then(TskLockThread(s, t), LAMBDA s1 :
    IF t # s1.ccb.curThread THEN Halt(s1, "loop_setThreadPrio")
    ELSE PltLowerIpl(
           TskUnlockThread(
             IF newPrio > s1.thread[t].priority
                /\ s1.ccb.readyMask # {}
                /\ CpuScanPriority(s1.ccb.readyMask) < newPrio
             THEN tskPreempt([s1 EXCEPT !.thread[t].priority = newPrio,
                                        !.ccb.curPriority = newPrio])
             ELSE [s1 EXCEPT !.thread[t].priority = newPrio,
                             !.ccb.curPriority = newPrio],
             t),
           ipl))

\* SetPrioReady that leaves the thread linked on the queue of its old
\* priority.
SetPrioReady_NoUnlink(s, t, newPrio, ipl) ==
  Then(TskLockThread(TskLockRq(s), t), LAMBDA s1 :
    Bind([s1 EXCEPT
               !.ccb.readyQueues[newPrio] = NkListAddBack(@, t),
               !.ccb.readyMask = @ \cup {newPrio},
               !.thread[t].priority = newPrio],
            LAMBDA s3 :
              PltLowerIpl(
                TskUnlockRq(TskUnlockThread(
                  IF s3.thread[t].priority < s3.ccb.curPriority
                  THEN tskPreempt(s3)
                  ELSE s3,
                  t)),
                ipl)))

\* TskSetThreadPrio, state sampled as READY: the thread moves to the tail
\* of the queue of its new priority.
SetPrioReady(s, t, newPrio, ipl) ==
  Then(TskLockThread(TskLockRq(s), t), LAMBDA s1 :
    LET curPrio == s1.thread[t].priority
        curQueue == NkListRemove(s1.ccb.readyQueues[curPrio], t)
    IN Bind([s1 EXCEPT
               !.ccb.readyQueues =
                  [[@ EXCEPT ![curPrio] = curQueue]
                      EXCEPT ![newPrio] = NkListAddBack(@, t)],
               !.ccb.readyMask =
                  (IF NkListFront(curQueue) = NoThread
                   THEN @ \ {curPrio} ELSE @) \cup {newPrio},
               !.thread[t].priority = newPrio],
            LAMBDA s3 :
              PltLowerIpl(
                TskUnlockRq(TskUnlockThread(
                  IF s3.thread[t].priority < s3.ccb.curPriority
                  THEN tskPreempt(s3)
                  ELSE s3,
                  t)),
                ipl)))

\* TskSetThreadPrio, any other sampled state.
SetPrioOther(s, t, newPrio, ipl) ==
  Then(TskLockThread(s, t), LAMBDA s1 :
    PltLowerIpl(
      TskUnlockThread([s1 EXCEPT !.thread[t].priority = newPrio], t),
      ipl))

\* Sets the priority of thread t.  The state is sampled under the thread
\* lock; on the single CPU it cannot change before the lock is taken again.
TskSetThreadPrio(s, t, newPrio) ==
  Then(TskUnlockThread(TskLockThread(PltRaiseIpl(s, PLT_IPL_HIGH), t), t),
       LAMBDA s0 :
         IF s0.thread[t].priority = newPrio
         THEN PltLowerIpl(s0, s.ccb.curIpl)
         ELSE IF s0.thread[t].state = TSK_THREAD_RUNNING
         THEN SetPrioRunning(s0, t, newPrio, s.ccb.curIpl)
         ELSE IF s0.thread[t].state = TSK_THREAD_READY
         THEN SetPrioReady(s0, t, newPrio, s.ccb.curIpl)
         ELSE SetPrioOther(s0, t, newPrio, s.ccb.curIpl))

\* Time-slice handler: runs on every tick of the periodic time event.
TskTimeSlice(s) ==
  Then(TskLockThread(PltRaiseIpl(s, PLT_IPL_HIGH), s.ccb.curThread),
       LAMBDA s0 :
         PltLowerIpl(
           TskUnlockThread(
             IF TSK_THREAD_FIFO \notin s0.thread[s0.ccb.curThread].flags
             THEN IF s0.thread[s0.ccb.curThread].quantaLeft = 0
                  THEN tskPreempt(s0)
                  ELSE [s0 EXCEPT
                          !.thread[s0.ccb.curThread].quantaLeft = @ - 1]
             ELSE s0,
             s0.ccb.curThread),
           s.ccb.curIpl))

\* ------------------------------------------------------------ thread.c

Cap(n, max) == IF n > max THEN max ELSE n

\* Flags a policy adds to the thread's flags.
PolicyFlags(policy) ==
  IF policy = TSK_POLICY_FIFO THEN {TSK_THREAD_FIFO, TSK_THREAD_FIXED_PRIO}
  ELSE IF policy = TSK_POLICY_RR THEN {TSK_THREAD_FIXED_PRIO}
  ELSE {}

\* The thread object TskCreateThread builds (memset to zero, then set up).
NewThreadObj(policy, prio, flags) ==
  [ NoThreadObj EXCEPT !.alloc = TRUE, !.refCount = 1,
                       !.flags = flags \cup PolicyFlags(policy),
                       !.priority = prio, !.state = TSK_THREAD_CREATED,
                       !.quantum = TSK_TIMESLICE_LEN, !.cont = "entry" ]

TskCreateThread(s, tid, policy, prio, flags) ==
  Then(s, LAMBDA s0 :
    UnlockThreads(LockThreads(
      [s0 EXCEPT !.thread[tid] = NewThreadObj(policy, prio, flags),
                 !.hist.clear[tid] = 0,
                 !.ev.created = tid])))

\* Standard thread entry point: the first code a new thread runs.
TskThreadEntry(s) ==
  PltLowerIpl(IF s.ccb.preemptDisable # 0 THEN TskUnlockRq(s) ELSE s,
              PLT_IPL_LOW)

\* Takes a reference on thread t.  The unlock is applied to the refCount
\* word, not to the lock word.  ev.ref and ev.refWas describe the call.
TskRefThread(s, t) ==
  Then(TskLockThread(s, t), LAMBDA s0 :
    [s0 EXCEPT !.thread[t].refCount = NkSpinUnlocked,
               !.ev.ref = t,
               !.ev.refWas = s0.thread[t].refCount])

\* Drops a reference on thread t and frees the object at zero.  ev.freed
\* is the thread freed, ev.freedWas its count and state before the call.
TskDestroyThread(s, t) ==
  Then(TskLockThread(LockThreads(s), t), LAMBDA s0 :
    UnlockThreads(
      IF s0.thread[t].refCount - 1 = 0
      THEN [s0 EXCEPT !.thread[t] = NoThreadObj,
                      !.hist.clear[t] = 0,
                      !.ev.freed = t,
                      !.ev.freedWas = [ refCount |-> s0.thread[t].refCount,
                                        state |-> s0.thread[t].state ]]
      ELSE TskUnlockThread(
             [s0 EXCEPT !.thread[t].refCount = @ - 1], t)))

\* Asserts a wait of the current thread on its embedded wait object.
\* timeout is 0 (none) or 1 (a deadline).
TskAssertWait(s, timeout) ==
  Then(s, LAMBDA s0 :
    LET t == s0.ccb.curThread IN
    IF s0.thread[t].state = TSK_THREAD_WAITING \/ s0.thread[t].waitAsserted # 0
    THEN Halt(s0, "assert_wait")
    ELSE [s0 EXCEPT
            !.thread[t].state = TSK_THREAD_WAITING,
            !.thread[t].waitAsserted = 1,
            !.thread[t].wait =
               [result |-> TSK_WAITOBJ_IN_PROG, timeout |-> timeout, waiter |-> t],
            !.thread[t].timeoutReg = IF timeout # 0 THEN TRUE ELSE @,
            !.hist.clear[t] = 0])

\* Waits on the asserted wait object (flags without TSK_WAITOBJ_OWN): the
\* part up to the suspension in TskSchedule.
TskWaitOnObj(s, tag) == TskSchedule(SetCont(s, tag))

\* The part of TskWaitOnObj after TskSchedule has returned in thread t.
TskWaitOnObjReturn(s, t) ==
  Then(s, LAMBDA s0 :
    [s0 EXCEPT !.ev.waitRet = t,
               !.ev.ret = IF s0.thread[t].wait.result # TSK_WAITOBJ_SUCCESS
                          THEN "false" ELSE "true"])

\* TskClearWait that reports success without storing the result.
TskClearWait_NoStore(s, w, result) ==
  Then(TskLockThread(s, s.thread[w].wait.waiter), LAMBDA s0 :
    LET waiter == s0.thread[w].wait.waiter
        called == [ w |-> w, res |-> result, was |-> s0.thread[w].wait.result,
                    trueBefore |-> s0.hist.clear[w], ret |-> FALSE ]
    IN
    IF s0.thread[waiter].waitAsserted # 0 THEN Halt(s0, "spin_waitAsserted")
    ELSE IF s0.thread[w].wait.result # TSK_WAITOBJ_IN_PROG
    THEN TskUnlockThread([s0 EXCEPT !.ev.clear = called, !.ev.ret = "false"],
                         waiter)
    ELSE TskUnlockThread(
           [s0 EXCEPT
              !.ev.clear = [called EXCEPT !.ret = TRUE],
              !.ev.ret = "true",
              !.hist.clear[w] = Cap(@ + 1, 2)],
           waiter))

\* TskClearWait that does not look at the result already stored.
TskClearWait_NoCheck(s, w, result) ==
  Then(TskLockThread(s, s.thread[w].wait.waiter), LAMBDA s0 :
    LET waiter == s0.thread[w].wait.waiter
        called == [ w |-> w, res |-> result, was |-> s0.thread[w].wait.result,
                    trueBefore |-> s0.hist.clear[w], ret |-> TRUE ]
    IN
    IF s0.thread[waiter].waitAsserted # 0 THEN Halt(s0, "spin_waitAsserted")
    ELSE TskUnlockThread(
           [s0 EXCEPT
              !.thread[waiter].timeoutReg =
                 IF result # TSK_WAITOBJ_TIMEOUT /\ s0.thread[w].wait.timeout # 0
                 THEN FALSE ELSE @,
              !.thread[w].wait.result = result,
              !.ev.clear = called,
              !.ev.ret = "true",
              !.hist.clear[w] = Cap(@ + 1, 2)],
           waiter))

\* Clears the wait on the wait object of thread w with the given result;
\* ev.ret is the value returned and ev.clear describes the call.
TskClearWait(s, w, result) ==
  Then(TskLockThread(s, s.thread[w].wait.waiter), LAMBDA s0 :
    LET waiter == s0.thread[w].wait.waiter
        called == [ w |-> w, res |-> result, was |-> s0.thread[w].wait.result,
                    trueBefore |-> s0.hist.clear[w], ret |-> FALSE ]
    IN
    IF s0.thread[waiter].waitAsserted # 0 THEN Halt(s0, "spin_waitAsserted")
    ELSE IF s0.thread[w].wait.result # TSK_WAITOBJ_IN_PROG
    THEN TskUnlockThread([s0 EXCEPT !.ev.clear = called, !.ev.ret = "false"],
                         waiter)
    ELSE TskUnlockThread(
           [s0 EXCEPT
              !.thread[waiter].timeoutReg =
                 IF result # TSK_WAITOBJ_TIMEOUT /\ s0.thread[w].wait.timeout # 0
                 THEN FALSE ELSE @,
              !.thread[w].wait.result = result,
              !.ev.clear = [called EXCEPT !.ret = TRUE],
              !.ev.ret = "true",
              !.hist.clear[w] = Cap(@ + 1, 2)],
           waiter))

\* The waker idiom of TskTerminateSelf: wake the waiter only when the wait
\* was cleared by this call.
ClearAndWake(s, w, result) ==
  Then(TskClearWait(s, w, result), LAMBDA s0 :
    IF s0.ev.ret = "true" THEN TskWakeObj(s0, w) ELSE s0)

\* Yields from the current thread.
TskYield(s) ==
  PltLowerIpl(TskSchedule(SetCont(PltRaiseIpl(s, PLT_IPL_HIGH), "sched")),
              s.ccb.curIpl)

\* Starts thread t.
TskStartThread(s, t) ==
  PltLowerIpl(TskReadyThread(PltRaiseIpl(s, PLT_IPL_HIGH), t), s.ccb.curIpl)

\* ------------------------------------------- wait queues and the terminator
\* Blocks the current thread on a wait queue: asserts the wait at IPL_HIGH
\* and waits on it.  tag names what the thread does when it is resumed.
TskWaitQueueTimeout(s, timeout, tag) ==
  TskWaitOnObj(TskAssertWait(PltRaiseIpl(s, PLT_IPL_HIGH), timeout), tag)

\* Wakes every waiter of a wait queue with SUCCESS, in queue order.
RECURSIVE TskBroadcastWaitQueue(_, _)
TskBroadcastWaitQueue(s, q) ==
  IF q = <<>> THEN s
  ELSE Then(ClearAndWake(s, Head(q), TSK_WAITOBJ_SUCCESS), LAMBDA s0 :
         TskBroadcastWaitQueue(s0, Tail(q)))

\* Terminates the current thread.
TskTerminateSelf(s) ==
  Then(TskLockThread(PltRaiseIpl(s, PLT_IPL_HIGH), s.ccb.curThread),
       LAMBDA s0 :
         LET t == s0.ccb.curThread IN
         IF s0.thread[t].state # TSK_THREAD_RUNNING
         THEN Halt(s0, "assert_running")
         ELSE
           Then(TskBroadcastWaitQueue(
                  [s0 EXCEPT !.thread[t].state = TSK_THREAD_TERMINATING],
                  s0.thread[t].joinQueue),
                LAMBDA s2 :
                  TskSchedule(SetCont(TskUnlockThread(
                    [s2 EXCEPT
                       !.thread[t].joinQueue = <<>>,
                       !.thread[t].joinClosed = TRUE,
                       !.nkTerminator =
                          IF s2.thread[t].refCount = 1 THEN @ \cup {t} ELSE @,
                       !.thread[t].refCount =
                          IF s2.thread[t].refCount = 1 THEN @ ELSE @ - 1],
                    t), "term"))))

\* Work item of the terminator work queue.
TskTerminator(s, t) ==
  Then(s, LAMBDA s0 :
    IF s0.thread[t].state # TSK_THREAD_TERMINATING
    THEN Halt(s0, "assert_terminating")
    ELSE TskDestroyThread([s0 EXCEPT !.nkTerminator = @ \ {t}], t))

\* Waits for the termination of thread t (timeout 0: TskJoinThread,
\* otherwise TskJoinThreadTimeout): the part up to the suspension.
TskJoinThread(s, t, timeout) ==
  Then(TskRefThread(s, t), LAMBDA s0 :
    IF s0.thread[t].joinClosed THEN [s0 EXCEPT !.ev.ret = "closed"]
    ELSE TskWaitQueueTimeout(
           [s0 EXCEPT !.thread[t].joinQueue = Append(@, s0.ccb.curThread),
                      !.thread[s0.ccb.curThread].joinTarget = t],
           timeout, "join"))

\* The part of TskJoinThread after the wait has returned in thread me.
TskJoinThreadReturn(s, me) ==
  Then(TskWaitOnObjReturn(s, me), LAMBDA s0 :
    LET t == s0.thread[me].joinTarget IN
    IF s0.ev.ret = "true"
    THEN TskDestroyThread(
           [s0 EXCEPT !.thread[me].joinTarget = NoThread,
                      !.thread[t].joinQueue =
                         IF s0.thread[t].alloc THEN NkListRemove(@, me) ELSE @],
           t)
    ELSE [s0 EXCEPT !.thread[me].joinTarget = NoThread,
                    !.thread[t].joinQueue =
                       IF s0.thread[t].alloc THEN NkListRemove(@, me) ELSE @])

\* ------------------------------------------------------- interrupt.c
\* The clock's interrupt handler on a tick of the periodic time-slice event
\* (TskInitSched): the event's callback is TskTimeSlice.  hist.ticks and
\* ev.tick count the ticks a non-FIFO current thread has taken.
TickHandler(s) ==
  TskTimeSlice(
    IF TSK_THREAD_FIFO \in s.thread[s.ccb.curThread].flags
    THEN s
    ELSE [s EXCEPT !.hist.ticks = Cap(@ + 1, MaxTicks),
                   !.ev.tick = Cap(s.hist.ticks + 1, MaxTicks)])

\* The clock's interrupt handler on the expiry of the wait timeout of
\* thread w: the event leaves the timer list and the wait is cleared with
\* TIMEOUT.
TimerExpireHandler(s, w) ==
  PltLowerIpl(
    ClearAndWake(
      PltRaiseIpl([s EXCEPT !.thread[w].timeoutReg = FALSE], PLT_IPL_HIGH),
      w, TSK_WAITOBJ_TIMEOUT),
    s.ccb.curIpl)

\* A device's interrupt handler that wakes the waiter of w's wait object.
DeviceWakeHandler(s, w) ==
  PltLowerIpl(
    ClearAndWake(PltRaiseIpl(s, PLT_IPL_HIGH), w, TSK_WAITOBJ_SUCCESS),
    s.ccb.curIpl)

\* The handler the interrupt chain runs.
HwHandler(s, kind, w) ==
  Then(s, LAMBDA s0 :
    IF kind = "Tick" THEN TickHandler(s0)
    ELSE IF kind = "TimerExpire" THEN TimerExpireHandler(s0, w)
    ELSE DeviceWakeHandler(s0, w))

\* Trap dispatcher, hardware-interrupt branch (not spurious, one handler on
\* the chain, which claims the interrupt).
PltTrapDispatch(s, kind, w) ==
  Then(s, LAMBDA s0 :
    Then(HwHandler(
           [s0 EXCEPT !.ccb.preemptDisable =
                         IF s0.ccb.preemptDisable = 0 THEN 1 ELSE @,
                      !.ccb.intActive = TRUE,
                      !.ccb.curIpl = PLT_IPL_TIMER],
           kind, w),
         LAMBDA s2 :
           IF s0.ccb.preemptDisable = 0
           THEN TskEnablePreempt(
                  [s2 EXCEPT !.ccb.curIpl = s0.ccb.curIpl,
                             !.ccb.intActive = FALSE])
           ELSE [s2 EXCEPT !.ccb.curIpl = s0.ccb.curIpl,
                           !.ccb.intActive = FALSE]))

\* What a thread does when TskSchedule returns to it, by the routine it
\* was suspended in.
ResumeThread(s, t) ==
  Bind([s EXCEPT !.thread[t].cont = "none"], LAMBDA s0 :
    IF s.thread[t].cont = "entry" THEN TskThreadEntry(s0)
    ELSE IF s.thread[t].cont = "sched"
    THEN PltLowerIpl(TskUnlockRq(s0), PLT_IPL_LOW)
    ELSE IF s.thread[t].cont = "wait"
    THEN PltLowerIpl(TskWaitOnObjReturn(TskUnlockRq(s0), t), PLT_IPL_LOW)
    ELSE IF s.thread[t].cont = "join"
    THEN TskJoinThreadReturn(PltLowerIpl(TskUnlockRq(s0), PLT_IPL_LOW), t)
    ELSE Halt(s0, "resume_" \o s.thread[t].cont))

\* --------------------------------------------- interrupt.c: connecting

\* CpuDisable / CpuEnable with no interrupt hold in force.
CpuDisable(s) == IF Done(s) THEN s ELSE [s EXCEPT !.plt.cpuInts = FALSE]

CpuEnable(s) == IF Done(s) THEN s ELSE [s EXCEPT !.plt.cpuInts = TRUE]

\* NkSpinLock (&chain->lock) / NkSpinUnlock (&chain->lock) on line gsi.
LockChain(s, gsi) ==
  IF Done(s) THEN s
  ELSE IF NkSpinLockHeld(s.plt.chain[gsi].lock) THEN Halt(s, "spin_chainLock")
  ELSE [s EXCEPT !.plt.chain[gsi].lock = NkSpinLocked,
                 !.ev.order = @ \cup
                   (IF s.ev.held.rq THEN {"chain_under_rq"} ELSE {}) \cup
                   (IF s.ev.held.th # {} THEN {"chain_under_thread"} ELSE {})]

UnlockChain(s, gsi) ==
  IF Done(s) THEN s ELSE [s EXCEPT !.plt.chain[gsi].lock = NkSpinUnlocked]

\* nkIntTable[vector].  The table is indexed without a lower bound check:
\* index -1 reads the word in front of the table, which holds whatever an
\* earlier store left there or, when wild, some other non-null word.
PltGetInterrupt(s, vector, wild) ==
  LET hits == {e \in s.plt.nkIntTable : e.vector = vector} IN
  IF hits # {} THEN [type |-> (CHOOSE e \in hits : TRUE).type,
                     intChain |-> (CHOOSE e \in hits : TRUE).intChain]
  ELSE IF vector = -1 /\ wild THEN [type |-> "wild", intChain |-> 0]
  ELSE NoInt

\* Installs a new interrupt object for the vector, with its chain set.
pltAllocInterrupt(s, vector, type, gsi) ==
  IF Done(s) THEN s
  ELSE IF NkSpinLockHeld(s.plt.nkIntTabLock) THEN Halt(s, "spin_nkIntTabLock")
  ELSE [s EXCEPT !.plt.nkIntTable =
                    @ \cup {[vector |-> vector, type |-> type, intChain |-> gsi]}]

\* Links record h at the head of the chain of its line.
pltChainInterrupt(s, h) ==
  Then(s, LAMBDA s0 :
    LET gsi == s0.plt.hw[h].gsi
        old == IF s0.plt.chain[gsi].chainLen = 0
               THEN [s0.plt.chain[gsi] EXCEPT !.list = <<>>, !.noRemap = FALSE]
               ELSE s0.plt.chain[gsi]
        len == old.chainLen + 1
    IN Bind([s0 EXCEPT !.plt.chain[gsi] =
                          [old EXCEPT !.list = NkListAddFront(old.list, h),
                                      !.chainLen = len]],
            LAMBDA s1 :
              IF len > 1
              THEN [s1 EXCEPT
                      !.plt.hw = [x \in HwIds |->
                         IF x = h \/ (len = 2 /\ old.list # <<>> /\ x = Head(old.list))
                         THEN [s1.plt.hw[x] EXCEPT !.flags = @ \cup {PLT_HWINT_CHAINED}]
                         ELSE s1.plt.hw[x]]]
              ELSE s1))

\* Unlinks record h from the chain of its line.
pltUnchainInterrupt(s, h) ==
  Then(s, LAMBDA s0 :
    LET gsi == s0.plt.hw[h].gsi
        list == NkListRemove(s0.plt.chain[gsi].list, h)
        len == s0.plt.chain[gsi].chainLen - 1
    IN Bind([s0 EXCEPT !.plt.chain[gsi].list = list,
                       !.plt.chain[gsi].chainLen = len],
            LAMBDA s1 :
              IF len = 1 /\ list # <<>>
              THEN [s1 EXCEPT !.plt.hw[Head(list)].flags = @ \ {PLT_HWINT_CHAINED}]
              ELSE s1))

\* The polarity test of PltAreIntsCompatible as the compiler reads it,
\* flags1 & (ACTIVE_LOW != flags2) & ACTIVE_LOW, with ACTIVE_LOW the lowest
\* flag bit: non-zero when the first record is active-low and the flag word
\* of the second is not ACTIVE_LOW alone.
PolarityTest(flags1, flags2) ==
  PLT_HWINT_ACTIVE_LOW \in flags1 /\ flags2 # {PLT_HWINT_ACTIVE_LOW}

PltAreIntsCompatible(int1, int2) ==
  ~(int1.mode # int2.mode \/ PolarityTest(int1.flags, int2.flags))

PltInitInterrupt(s, h, gsi, ipl, mode, flags) ==
  [s EXCEPT !.plt.hw[h] =
     [ init |-> TRUE, gsi |-> gsi, ipl |-> IF ipl = 0 THEN 1 ELSE ipl,
       mode |-> mode, flags |-> flags, vector |-> s.plt.hw[h].vector ]]

PltInitInternalInt(s, h, vector, ipl, mode, flags) ==
  [s EXCEPT !.plt.hw[h] =
     [ init |-> TRUE, gsi |-> PLT_GSI_INTERNAL, vector |-> vector,
       ipl |-> IF ipl = 0 THEN 1 ELSE ipl, mode |-> mode,
       flags |-> flags \cup {PLT_HWINT_INTERNAL} ]]

\* ----------------------------------------------------------------- apic.c

\* IPL to APIC priority, and priority class to IPL.
pltLapicMapIpl(ipl) ==
  IF ipl = PLT_IPL_TIMER
  THEN PLT_APIC_CLASS_TO_PRI(PLT_APIC_NUM_PRIORITY - 1)
  ELSE PLT_APIC_CLASS_TO_PRI(
         ((IF ipl > PLT_APIC_MAX_IPL THEN PLT_APIC_MAX_IPL ELSE ipl) \div 2) + 3)

pltLapicMapPrio(class) == prioToIplMap[class + 1]

\* Classes with a free vector, counted from the vectors handed out.
FreeClasses(vectorMap) ==
  {c \in 0 .. PLT_APIC_NUM_PRIORITY - 1 :
     Cardinality({v \in vectorMap : PLT_APIC_PRI_TO_CLASS(v) = c})
       < PLT_APIC_PRIO_NUM_VECT}

\* The class pltApicAllocVector settles on for base class baseClass: the
\* closest class with a free vector, upwards on a tie; -1 if there is none.
pltApicAllocClass(vectorMap, baseClass) ==
  LET up == {c \in FreeClasses(vectorMap) : c >= baseClass}
      down == {c \in FreeClasses(vectorMap) : c <= baseClass}
      distUp == IF up = {} THEN 16 ELSE SetMin(up) - baseClass
      distDown == IF down = {} THEN 16
                  ELSE baseClass - (CHOOSE c \in down : \A d \in down : d <= c)
  IN IF distUp <= distDown
     THEN IF up = {} THEN -1 ELSE SetMin(up)
     ELSE baseClass - distDown

\* First free vector of a class.
pltApicGetVector(vectorMap, class) ==
  PLT_APIC_CLASS_TO_PRI(class)
    + SetMin({i \in 0 .. PLT_APIC_PRIO_NUM_VECT - 1 :
                PLT_APIC_CLASS_TO_PRI(class) + i \notin vectorMap})

\* Maps record h to a vector and a redirection entry (left masked);
\* ev.int.vector is the vector, -1 on failure.
pltApicMapInterrupt(s, h) ==
  LET hw == s.plt.hw[h]
      class == pltApicAllocClass(s.plt.vectorMap,
                                 PLT_APIC_PRI_TO_CLASS(pltLapicMapIpl(hw.ipl)))
      vector == pltApicGetVector(s.plt.vectorMap, class)
  IN
  IF class = -1 THEN [s EXCEPT !.ev.int.vector = -1]
  ELSE IF hw.ipl = PLT_IPL_TIMER /\ class # PLT_APIC_NUM_PRIORITY - 1
  THEN [s EXCEPT !.ev.int.vector = -1]
  ELSE [s EXCEPT !.plt.hw[h].ipl = pltLapicMapPrio(class),
                 !.plt.hw[h].vector = vector,
                 !.plt.vectorMap = @ \cup {vector},
                 !.plt.redir[hw.gsi] = [vector |-> vector, masked |-> TRUE],
                 !.ev.int.vector = vector]

\* connectInterrupt of the APIC for a record that does not set FORCE_IPL
\* (no record of this model does): ev.int.vector is the vector, -1 when
\* the record may not share the line.
PltApicConnectInterrupt(s, h) ==
  Then(s, LAMBDA s0 :
    LET intObj == s0.plt.hw[h]
        curChain == s0.plt.chain[intObj.gsi]
        chainFront == s0.plt.hw[NkListFront(curChain.list)]
    IN
    IF NkListFront(curChain.list) # NoThread
    THEN IF \/ PLT_HWINT_NON_CHAINABLE \in intObj.flags
            \/ ~PltAreIntsCompatible(intObj, chainFront)
            \/ intObj.mode = PLT_MODE_EDGE
         THEN [s0 EXCEPT !.ev.int.vector = -1]
         ELSE [s0 EXCEPT !.plt.hw[h].ipl = chainFront.ipl,
                         !.plt.hw[h].vector = chainFront.vector,
                         !.ev.int.vector = chainFront.vector]
    ELSE pltApicMapInterrupt(s0, h))

PltApicEnableInterrupt(s, h) ==
  IF Done(s) THEN s ELSE [s EXCEPT !.plt.redir[s.plt.hw[h].gsi].masked = FALSE]

\* disconnectInterrupt of the APIC.  The chain is read from the line map
\* by the GSI of the record without a bounds check: for the record of an
\* internal interrupt the read is outside the map and yields, by wild,
\* a fault, a chain length that is not zero, or zero, in which case the
\* I/O APIC of the line is looked up and not found.
PltApicDisconnectInterrupt(s, h, wild) ==
  Then(s, LAMBDA s0 :
    IF s0.plt.hw[h].gsi \notin Gsis
    THEN IF wild = "nonzero" THEN s0
         ELSE IF wild = "zero"
         THEN Halt([s0 EXCEPT !.plt.vectorMap = @ \ {s0.plt.hw[h].vector}],
                   "assert_apic")
         ELSE Halt(s0, "wild_lineMap")
    ELSE IF s0.plt.chain[s0.plt.hw[h].gsi].chainLen = 0
    THEN [s0 EXCEPT !.plt.vectorMap = @ \ {s0.plt.hw[h].vector},
                    !.plt.redir[s0.plt.hw[h].gsi] = [vector |-> 0, masked |-> TRUE]]
    ELSE s0)

\* setIpl of the APIC: the task priority register.
PltApicSetIpl(s, ipl) ==
  IF Done(s) THEN s
  ELSE [s EXCEPT !.plt.tpr = IF ipl # 0 THEN pltLapicMapIpl(ipl - 1) ELSE 0]

\* Installs the hardware interrupt of record h.  ev.int.ret is "obj" when
\* the interrupt object is returned and "null" when NULL is.
PltConnectInterrupt(s, h, wild) ==
  IF s.plt.hw[h].ipl > PLT_IPL_TIMER THEN [s EXCEPT !.ev.int.ret = "null"]
  ELSE
  Then(IF PLT_HWINT_INTERNAL \notin s.plt.hw[h].flags
       THEN PltApicConnectInterrupt(
              LockChain(CpuDisable(s), s.plt.hw[h].gsi), h)
       ELSE [LockChain(CpuDisable(s), s.plt.hw[h].gsi)
               EXCEPT !.ev.int.vector = s.plt.hw[h].vector],
       LAMBDA s1 :
         LET hwInt == s1.plt.hw[h]
             vector == s1.ev.int.vector
             obj == PltGetInterrupt(s1, vector, wild)
         IN
         IF obj # NoInt
         THEN IF \/ PLT_HWINT_NON_CHAINABLE \in hwInt.flags
                 \/ PLT_HWINT_INTERNAL \notin hwInt.flags
              THEN [s1 EXCEPT !.ev.int.ret = "null"]
              ELSE IF obj.type # PLT_INT_HWINT THEN Halt(s1, "assert_type")
              ELSE [CpuEnable(UnlockChain(pltChainInterrupt(s1, h), hwInt.gsi))
                      EXCEPT !.ev.int.ret = "obj"]
         ELSE [CpuEnable(UnlockChain(
                 Bind(pltChainInterrupt(
                        pltAllocInterrupt(s1, vector, PLT_INT_HWINT, hwInt.gsi), h),
                      LAMBDA s2 :
                        IF PLT_HWINT_INTERNAL \notin hwInt.flags
                        THEN PltApicEnableInterrupt(s2, h)
                        ELSE s2),
                 hwInt.gsi))
                 EXCEPT !.ev.int.ret = "obj"])

\* Disconnects record h, which is linked on the chain of its line.
PltDisconnectInterrupt(s, h, wild) ==
  CpuEnable(UnlockChain(
    PltApicDisconnectInterrupt(
      pltUnchainInterrupt(LockChain(CpuDisable(s), s.plt.hw[h].gsi), h),
      h, wild),
    s.plt.hw[h].gsi))

\* ------------------------------------------- interrupt.c: IPL, hardware

\* The hardware side of PltRaiseIpl and PltLowerIpl: interrupts go off
\* and, unless the level is IPL_HIGH, the controller is told the level and
\* interrupts go on again.
PltIplHw(s, ipl) ==
  IF ipl # PLT_IPL_HIGH
  THEN CpuEnable(PltApicSetIpl(CpuDisable(s), ipl))
  ELSE CpuDisable(s)

\* The local APIC's processor priority class: the higher of the task
\* priority and the highest vector in service.
ApicPprClass(p) ==
  LET classes == {PLT_APIC_PRI_TO_CLASS(p.tpr)}
                   \cup {PLT_APIC_PRI_TO_CLASS(p.isr[i]) : i \in 1 .. Len(p.isr)}
  IN CHOOSE c \in classes : \A d \in classes : d <= c

\* The CPU takes the interrupt of line gsi: the line is unmasked, CPU
\* interrupts are enabled and the vector's class is above the processor
\* priority class.
Deliverable(p, gsi) ==
  /\ ~p.redir[gsi].masked
  /\ p.cpuInts
  /\ PLT_APIC_PRI_TO_CLASS(p.redir[gsi].vector) > ApicPprClass(p)

\* The link after item on the list, NoThread at the end.
NkListIterate(list, item) ==
  LET at == {i \in 1 .. Len(list) : list[i] = item} IN
  IF at = {} \/ SetMin(at) = Len(list) THEN NoThread ELSE list[SetMin(at) + 1]

\* ------------------------------------- interrupt.c: the trap dispatcher
\* PltTrapDispatch for a hardware interrupt, in the steps between which the
\* handlers of the chain run with CPU interrupts enabled.  A frame holds the
\* locals of one activation (the line, oldIpl, preemptSet, the record whose
\* handler is running) and, for the properties, the IPL and the
\* preemption-disable counter at entry and the depth of iplStack.

\* Lines 510-513 and the return from the trap.
PltTrapTail(s, fr, how) ==
  Then([s EXCEPT !.ccb.intActive = FALSE], LAMBDA s0 :
    Then(IF ~fr.preemptSet
         THEN PltIplHw(TskEnablePreempt(s0), s0.ccb.curIpl)
         ELSE s0,
         LAMBDA s1 :
           [s1 EXCEPT !.plt.cpuInts = TRUE,
                      !.plt.frames = SubSeq(@, 1, Len(@) - 1),
                      !.ev.int.returned = how,
                      !.ev.int.gsi = fr.gsi,
                      !.ev.int.iplEntry = fr.iplEntry,
                      !.ev.int.pdEntry = fr.pdEntry,
                      !.ev.int.lockEntry = fr.lockEntry]))

\* Lines 506-508: the IPL is restored and the controller ends the
\* interrupt (the APIC's EOI retires the highest vector in service).
PltTrapFinish(s, fr, how) ==
  Then(s, LAMBDA s0 :
    PltTrapTail(
      [s0 EXCEPT !.ccb.curIpl = fr.oldIpl,
                 !.plt.isr = IF @ = <<>> THEN @ ELSE SubSeq(@, 1, Len(@) - 1)],
      fr, how))

\* Trap entry up to the call of the first handler of the chain.  begun is
\* what the controller's beginInterrupt returns (FALSE: spurious).
PltTrapEnter(s, gsi, begun) ==
  LET vector == s.plt.redir[gsi].vector
      intObj == PltGetInterrupt(s, vector, FALSE)
      preemptSet == s.ccb.preemptDisable # 0
      fr == [ gsi |-> gsi, oldIpl |-> s.ccb.curIpl, preemptSet |-> preemptSet,
              iter |-> NoThread, iplEntry |-> s.ccb.curIpl,
              pdEntry |-> s.ccb.preemptDisable, depth |-> Len(s.plt.iplStack),
              lockEntry |-> s.plt.chain[gsi].lock ]
  IN
  IF intObj = NoInt THEN Halt(s, "bad_trap")
  ELSE
  Bind([(IF preemptSet THEN s ELSE TskDisablePreempt(s)) EXCEPT
           !.ccb.intActive = TRUE,
           !.plt.cpuInts = FALSE,
           !.plt.isr = IF begun THEN Append(@, vector) ELSE @,
           !.plt.frames = Append(@, fr)],
       LAMBDA s0 :
         IF ~begun THEN PltTrapTail(s0, fr, "spurious")
         ELSE
         Then(LockChain(s0, intObj.intChain), LAMBDA s1 :
           LET iter == NkListFront(s1.plt.chain[intObj.intChain].list) IN
           IF iter = NoThread THEN Halt(s1, "null_deref")
           ELSE CpuEnable(UnlockChain(
                  [s1 EXCEPT !.ccb.curIpl = s1.plt.hw[iter].ipl,
                             !.plt.frames[Len(s1.plt.frames)].iter = iter,
                             !.plt.frames[Len(s1.plt.frames)].gsi = intObj.intChain,
                             !.ev.int.entered = TRUE,
                             !.ev.int.enteredIpl = s1.plt.hw[iter].ipl,
                             !.ev.int.iplIntr = fr.oldIpl],
                  intObj.intChain))))

\* The running handler returns claimed: the loop breaks, or goes on with
\* the next record of the chain, or ends.
PltTrapNext(s, claimed) ==
  LET fr == s.plt.frames[Len(s.plt.frames)] IN
  IF claimed THEN PltTrapFinish(s, fr, "claimed")
  ELSE
  Then(LockChain(CpuDisable(s), fr.gsi), LAMBDA s1 :
    LET iter == NkListIterate(s1.plt.chain[fr.gsi].list, fr.iter) IN
    IF iter # NoThread
    THEN CpuEnable(UnlockChain(
           [s1 EXCEPT !.plt.frames[Len(s1.plt.frames)].iter = iter,
                      !.ev.int.entered = TRUE,
                      !.ev.int.enteredIpl = s1.plt.hw[iter].ipl,
                      !.ev.int.iplIntr = fr.oldIpl],
           fr.gsi))
    ELSE PltTrapFinish(s1, fr, "unclaimed"))

\* ---------------------------------------------------------------- page.c

LockZone(s, z) ==
  IF Done(s) THEN s
  ELSE IF s.pm.zone[z].lock = NkSpinLocked THEN Halt(s, "spin_zone")
  ELSE [s EXCEPT !.pm.zone[z].lock = NkSpinLocked]

UnlockZone(s, z) ==
  IF Done(s) THEN s ELSE [s EXCEPT !.pm.zone[z].lock = NkSpinUnlocked]

\* maxAddr is a frame number, 0 for no limit (page.c 227-228 turns 0 into
\* the largest pfn_t).
mmZoneWillWork(zone, maxAddr, needed, bannedFlags) ==
  ~ \/ zone.flags \cap bannedFlags # {}
    \/ MM_ZONE_ALLOCATABLE \notin zone.flags
    \/ maxAddr # 0 /\ zone.pfn + zone.numPages > maxAddr
    \/ zone.freeCount < needed

\* The loop of mmZoneFindBest from zone i on.
RECURSIVE mmZoneScan(_, _, _, _, _)
mmZoneScan(s, i, maxAddr, count, bannedFlags) ==
  IF Done(s) \/ i > Len(s.pm.zone) THEN s
  ELSE Bind(LockZone(s, i), LAMBDA s1 :
         IF Done(s1) THEN s1
         ELSE IF mmZoneWillWork(s1.pm.zone[i], maxAddr, count, bannedFlags)
         THEN [s1 EXCEPT !.ev.pm.zone = i]
         ELSE mmZoneScan(UnlockZone(s1, i), i + 1, maxAddr, count, bannedFlags))

\* ev.pm.zone is the zone returned, locked; 0 for NULL.
mmZoneFindBest(s, maxAddr, count, bannedFlags) ==
  Bind(LockZone(s, s.pm.freeHint), LAMBDA s1 :
    IF Done(s1) THEN s1
    ELSE IF mmZoneWillWork(s1.pm.zone[s1.pm.freeHint], maxAddr, count, bannedFlags)
    THEN [s1 EXCEPT !.ev.pm.zone = s1.pm.freeHint]
    ELSE mmZoneScan(UnlockZone(s1, s1.pm.freeHint), 1, maxAddr, count, bannedFlags))

MmFreePage(s, page) ==
  IF Done(s) THEN s
  ELSE IF s.pm.page[page].fixCount # 0 THEN Halt(s, "panic_fixed")
  ELSE Bind(LockZone(s, PageZone(page)), LAMBDA s1 :
         IF Done(s1) THEN s1
         ELSE UnlockZone(
                [s1 EXCEPT !.pm.link = LinkAddFront(@, -PageZone(page), page),
                           !.pm.zone[PageZone(page)].freeCount = @ + 1,
                           !.pm.mmFreePages = @ + 1,
                           !.pm.page[page].flags = {MM_PAGE_FREE}],
                PageZone(page)))

\* ev.pm.ret is the page returned, -1 for NULL.
MmAllocPage(s) ==
  Bind(mmZoneFindBest(s, 0, 1, {MM_ZONE_NO_GENERIC}), LAMBDA s1 :
    IF Done(s1) \/ s1.ev.pm.zone = 0 THEN s1
    ELSE LET zone == s1.ev.pm.zone
             link == s1.pm.link[-zone].next
         IN
         IF link = -zone THEN Halt(s1, "null_deref")
         ELSE UnlockZone(
                [s1 EXCEPT !.pm.link = LinkRemove(@, link),
                           !.pm.zone[zone].freeCount = @ - 1,
                           !.pm.mmFreePages = @ - 1,
                           !.pm.page[link].flags = {MM_PAGE_ALLOCED},
                           !.ev.pm.ret = link],
                zone))

\* The links after NkListRemove of count pages from page first on.
RECURSIVE LinkRemoveRun(_, _, _)
LinkRemoveRun(link, first, count) ==
  IF count = 0 THEN link
  ELSE LinkRemoveRun(LinkRemove(link, first), first + 1, count - 1)

\* maxAddr and align are in bytes.  ev.pm.ret is the first page returned,
\* -1 for NULL.  When the run of count pages extends beyond the PFN map,
\* the page structures removed from the list and marked there are memory
\* that is not a page structure: the CPU faults (fault) or what is written
\* lands outside the state of the allocator.  The scan for the first page
\* stays inside the PFN map in every call of the model (halt "oob" is not
\* reachable).
MmAllocPagesAt(s, count, maxAddr, align, fault) ==
  Bind(mmZoneFindBest(s, maxAddr \div NEXKE_CPU_PAGESZ, count, {}), LAMBDA s1 :
    IF Done(s1) \/ s1.ev.pm.zone = 0 THEN s1
    ELSE LET zone == s1.pm.zone[s1.ev.pm.zone]
             pfnAlign == align \div NEXKE_CPU_PAGESZ
             pfnMap == zone.pfnMap + ((pfnAlign - (zone.pfn % pfnAlign)) % pfnAlign)
             steps == {i \in 0 .. zone.numPages - 1 : i % pfnAlign = 0}
             found == {i \in steps : pfnMap + i < NumPfn
                                     /\ MM_PAGE_FREE \in s1.pm.page[pfnMap + i].flags}
             firstPage == pfnMap + SetMin(found)
             inMap == IF firstPage + count > NumPfn THEN NumPfn - firstPage
                      ELSE count
         IN
         IF \/ found = {} /\ \E i \in steps : pfnMap + i >= NumPfn
            \/ found # {} /\ \E i \in steps : i < SetMin(found) /\ pfnMap + i >= NumPfn
         THEN Halt(s1, "oob")
         ELSE IF found = {} THEN s1
         ELSE IF inMap < count /\ fault THEN Halt(s1, "oob_fault")
         ELSE UnlockZone(
                [s1 EXCEPT !.pm.link = LinkRemoveRun(@, firstPage, inMap),
                           !.pm.page = [p \in DOMAIN @ |->
                                          IF p >= firstPage /\ p < firstPage + count
                                          THEN [@[p] EXCEPT !.flags = {MM_PAGE_ALLOCED}]
                                          ELSE @[p]],
                           !.pm.zone[s1.ev.pm.zone].freeCount = @ - count,
                           !.pm.mmFreePages = @ - count,
                           !.ev.pm.ret = firstPage],
                s1.ev.pm.zone))

RECURSIVE MmFreePages(_, _, _)
MmFreePages(s, pages, count) ==
  IF count = 0 THEN s
  ELSE MmFreePages(MmFreePage(s, pages), pages + 1, count - 1)

\* obj is the address of the object, off the offset in it.
MmAddPage(s, obj, off, page) ==
  IF Done(s) THEN s
  ELSE IF MM_PAGE_IN_OBJECT \in s.pm.page[page].flags THEN Halt(s, "assert_in_object")
  ELSE [s EXCEPT !.pm.link = LinkAddFront(@, BucketHead, page),
                 !.pm.page[page].offset = off,
                 !.pm.page[page].obj = obj,
                 !.pm.page[page].flags = @ \cup {MM_PAGE_IN_OBJECT},
                 !.pm.pageList = <<page>> \o @]

MmRemovePage(s, page) ==
  IF Done(s) THEN s
  ELSE IF MM_PAGE_IN_OBJECT \notin s.pm.page[page].flags
  THEN Halt(s, "assert_not_in_object")
  ELSE [s EXCEPT !.pm.link = LinkRemove(@, page),
                 !.pm.pageList = SelectSeq(@, LAMBDA x : x # page),
                 !.pm.page[page].offset = 0,
                 !.pm.page[page].obj = 0,
                 !.pm.page[page].flags = (@ \cup {MM_PAGE_ALLOCED}) \ {MM_PAGE_IN_OBJECT}]

\* ------------------------------------------------------------- kvmm.c

\* Region and bucket locks are taken and released in pairs inside every
\* routine below, so between two calls they are all free; only a lock in a
\* structure nothing has written yet can hold anything else.

mmKvGetBucket(sz) ==
  IF sz <= 4 THEN 0
  ELSE IF sz <= 8 THEN 1
  ELSE IF sz <= 16 THEN 2
  ELSE IF sz <= 32 THEN 3
  ELSE MM_BUCKET_32PLUS

\* Index of the region structure of the page at addr.
mmKvGetRegion(addr) == (addr - KvStart) \div NEXKE_CPU_PAGESZ

\* Index of the structure the footer of the region (base, sz) overlays.
mmKvGetRegionFooter(base, sz) == mmKvGetRegion(base) + (sz - 1)

KvListFront(link, list) ==
  IF link[list].next = list THEN KvNull ELSE link[list].next

\* NkSpinLock on the lock of region structure i.  A structure that was
\* never written holds what the boot pool held: g says whether that reads
\* as zero (the lock is taken, and the structure is known to be zero from
\* then on) or not (the lock never becomes free).
KvLockRegion(s, i, g) ==
  IF Done(s) THEN s
  ELSE IF i \notin 0..KvPages THEN Halt(s, "wild")
  ELSE IF s.kv.region[i].init THEN s
  ELSE IF g = "locked" THEN Halt(s, "spin_garbage")
  ELSE [s EXCEPT !.kv.region[i] =
          [ vaddr |-> IF @.written THEN @.vaddr ELSE 0,
            numPages |-> IF @.written THEN @.numPages ELSE 0,
            isFree |-> FALSE, written |-> TRUE, init |-> TRUE ]]

\* The region array after region r was cut down to numPages and the rest,
\* splitSz pages, became the free region sp.
KvSplitRegion(region, r, numPages, sp, splitSz) ==
  LET left == [region EXCEPT ![r].numPages = numPages, ![r].isFree = FALSE]
      leftF == IF numPages > 1
               THEN KvSetFooter(left,
                      mmKvGetRegionFooter(region[r].vaddr, numPages), numPages)
               ELSE left
      right == [leftF EXCEPT ![sp] =
                  [ vaddr |-> region[r].vaddr + numPages * NEXKE_CPU_PAGESZ,
                    numPages |-> splitSz, isFree |-> TRUE, written |-> TRUE,
                    init |-> TRUE ]]
  IN IF splitSz > 1
     THEN KvSetFooter(right,
            mmKvGetRegionFooter(
              region[r].vaddr + numPages * NEXKE_CPU_PAGESZ, splitSz),
            splitSz)
     ELSE right

mmKvPrepareRegion(s, r, numPages, g) ==
  IF Done(s) THEN s
  ELSE IF s.kv.region[r].numPages = numPages
  THEN [s EXCEPT !.kv.numFreePages = @ - numPages,
                 !.kv.link = LinkRemove(@, r),
                 !.kv.region[r].isFree = FALSE]
  ELSE LET splitSz == s.kv.region[r].numPages - numPages
           sp == mmKvGetRegion(s.kv.region[r].vaddr + numPages * NEXKE_CPU_PAGESZ)
       IN IF sp < 0 \/ sp + splitSz - 1 > KvPages THEN Halt(s, "wild")
          ELSE Then(KvLockRegion(
                      [s EXCEPT !.kv.numFreePages = @ - numPages],
                      sp, g),
                    LAMBDA t:
                      [t EXCEPT
                         !.kv.region =
                           KvSplitRegion(@, r, numPages, sp, splitSz),
                         !.kv.link =
                           LinkAddFront(LinkRemove(@, r),
                             KvBucketNode(mmKvGetBucket(splitSz)), sp)])

\* The search of mmAllocKvInArena: the first region of at least numPages
\* pages, from bucket b on.  -1: none (NULL); -2: the walk does not end;
\* -3: the walk left the region structures.  kvmm.c steps with a
\* NkListIterate of one argument, which list.h does not have: it is taken
\* as the step to link->next that ends at NULL, the way the zeroed list
\* heads of the arena end their lists.
RECURSIVE mmKvFind(_, _, _, _, _)
mmKvFind(k, b, iter, numPages, fuel) ==
  IF fuel = 0 THEN -2
  ELSE IF iter = KvNull
  THEN IF b = MM_BUCKET_32PLUS THEN -1
       ELSE mmKvFind(k, b + 1, KvListFront(k.link, KvBucketNode(b + 1)),
                     numPages, fuel - 1)
  ELSE IF iter \notin 0..KvPages THEN -3
  ELSE IF k.region[iter].numPages >= numPages THEN iter
  ELSE mmKvFind(k, b, k.link[iter].next, numPages, fuel - 1)

\* Leaves the region found (-1: NULL) in ev.kv.reg.
mmAllocKvInArena(s, numPages, g) ==
  IF Done(s) THEN s
  ELSE LET f == mmKvFind(s.kv, mmKvGetBucket(numPages),
                  KvListFront(s.kv.link, KvBucketNode(mmKvGetBucket(numPages))),
                  numPages, KvPages + MM_KV_MAX_BUCKETS + 2)
       IN IF f = -2 THEN Halt(s, "hang_walk")
          ELSE IF f = -3 THEN Halt(s, "wild")
          ELSE IF f = -1 THEN [s EXCEPT !.ev.kv.reg = -1]
          ELSE [mmKvPrepareRegion(s, f, numPages, g) EXCEPT !.ev.kv.reg = f]

\* The refill loop of mmKvAllocFreeList from index i on.
RECURSIVE KvRefill(_, _, _)
KvRefill(s, i, g) ==
  IF Done(s) \/ i >= MM_KV_REFILL_VAL THEN s
  ELSE Then(mmAllocKvInArena(s, 1, g),
            LAMBDA t:
              IF t.ev.kv.reg = -1 THEN t
              ELSE KvRefill(
                     [t EXCEPT !.kv.link = LinkAddFront(@, KvFreeList, t.ev.kv.reg),
                               !.kv.freeListSz = @ + 1],
                     i + 1, g))

\* Leaves the pointer (0: NULL) in ev.kv.ret.  NkListPopFront is not in
\* list.h: it is taken as NkListFront followed by NkListRemove.
mmKvAllocFreeList(s, g) ==
  IF Done(s) THEN s
  ELSE Then(IF s.kv.freeListSz = 0 THEN s
            ELSE IF KvListFront(s.kv.link, KvFreeList) \notin 0..KvPages
            THEN Halt(s, "wild_pop")
            ELSE [s EXCEPT
                    !.kv.link = LinkRemove(@, KvListFront(s.kv.link, KvFreeList)),
                    !.kv.region[KvListFront(s.kv.link, KvFreeList)].isFree = FALSE,
                    !.kv.freeListSz = @ - 1,
                    !.ev.kv.ret =
                      s.kv.region[KvListFront(s.kv.link, KvFreeList)].vaddr],
            LAMBDA t:
              IF t.kv.freeListSz <= MM_KV_REFILL_MIN
              THEN KvRefill(t, t.kv.freeListSz, g)
              ELSE t)

\* ------------------------------------------------------ mul.c, page.c
\* The page tables of the kernel address space exist for all of MulVaddrs
\* (MmPtabWalkAndMap and MmPtabIterate find the table of every address);
\* of a PTE the model keeps the frame, the present bit and PF_F, so the
\* permissions of a mapping are left out.  MM_MUL_LOCK of the address
\* space is left out as well: no routine here takes it while it holds it.

\* PFN of a page structure, and MmFindPagePfn.
MulPfn(page) == IF page = MulFakePage THEN MulMmioPfn ELSE MulPfnBase + page

MmFindPagePfn(pfn) ==
  IF pfn >= MulPfnBase /\ pfn < MulPfnBase + MulPages THEN pfn - MulPfnBase
  ELSE MulFakePage

\* NkSpinLock (&page->lock) / NkSpinUnlock (&page->lock).
LockPage(s, page) ==
  IF Done(s) THEN s
  ELSE IF NkSpinLockHeld(s.mu.page[page].lock) THEN Halt(s, "spin_pageLock")
  ELSE [s EXCEPT !.mu.page[page].lock = NkSpinLocked]

UnlockPage(s, page) ==
  IF Done(s) THEN s ELSE [s EXCEPT !.mu.page[page].lock = NkSpinUnlocked]

\* The map list without its first entry for addr.
MapListRemove(maps, addr) ==
  LET at == {i \in 1 .. Len(maps) : maps[i] = addr} IN
  IF at = {} THEN maps ELSE RemoveAt(maps, SetMin(at))

\* The loop of MmMulMapPage and MmMulUnmapRange that takes the mapping of
\* addr off the list of a page: numMaps goes down only when an entry is
\* found.
MulDropMap(s, page, addr) ==
  Then(LockPage(s, page), LAMBDA t :
    UnlockPage(
      IF addr \in Range(t.mu.page[page].maps)
      THEN [t EXCEPT !.mu.page[page].maps = MapListRemove(@, addr),
                     !.mu.numMaps = @ - 1]
      ELSE t,
      page))

\* Maps page at virt in the kernel address space.  The entry of a page
\* that was mapped at virt before is looked for under the address without
\* its canonical bits.
MmMulMapPage(s, virt, page) ==
  Then(s, LAMBDA s0 :
    LET pg == s0.mu.page[page]
        addr == mulDecanonical(virt)
        old == s0.mu.pte[addr]
        newPte == [pfn |-> MulPfn(page), f |-> MM_PAGE_FIXED \in pg.flags,
                   p |-> TRUE]
    IN
    IF old # NoPte /\ old.f THEN Halt(s0, "panic_unmap_fixed")
    ELSE
    Bind([s0 EXCEPT !.mu.pte[addr] = newPte,
                    !.mu.numFixed = IF newPte.f THEN @ + 1 ELSE @],
         LAMBDA s1 :
           Bind(IF old # NoPte /\ old.pfn # newPte.pfn
                THEN MulDropMap(s1, MmFindPagePfn(old.pfn), addr)
                ELSE s1,
                LAMBDA s2 :
                  Then(IF /\ MM_PAGE_FIXED \notin pg.flags
                          /\ MM_PAGE_UNUSABLE \notin pg.flags
                       THEN Then(LockPage(s2, page), LAMBDA t :
                              UnlockPage(
                                [t EXCEPT !.mu.page[page].maps = <<virt>> \o @],
                                page))
                       ELSE s2,
                       LAMBDA s3 : [s3 EXCEPT !.mu.numMaps = @ + 1]))))

\* Unmaps count pages from the address addr (without canonical bits) on.
RECURSIVE MulUnmapFrom(_, _, _)
MulUnmapFrom(s, addr, count) ==
  IF count = 0 \/ Done(s) THEN s
  ELSE IF addr \notin DOMAIN s.mu.pte \/ s.mu.pte[addr] = NoPte
  THEN MulUnmapFrom(s, addr + NEXKE_CPU_PAGESZ, count - 1)
  ELSE IF s.mu.pte[addr].f THEN Halt(s, "panic_remove_fixed")
  ELSE MulUnmapFrom(
         MulDropMap([s EXCEPT !.mu.pte[addr] = NoPte],
                    MmFindPagePfn(s.mu.pte[addr].pfn),
                    mulMakeCanonical(addr)),
         addr + NEXKE_CPU_PAGESZ, count - 1)

MmMulUnmapRange(s, base, count) == MulUnmapFrom(s, mulDecanonical(base), count)

\* The loop of MmMulFixPage (fix) and MmMulUnfixPage over the map list.
RECURSIVE MulFixMaps(_, _, _)
MulFixMaps(s, maps, fix) ==
  IF maps = <<>> \/ Done(s) THEN s
  ELSE LET addr == mulDecanonical(Head(maps)) IN
       MulFixMaps(
         IF s.mu.pte[addr] = NoPte THEN s
         ELSE [s EXCEPT !.mu.pte[addr].f = fix,
                        !.mu.numFixed =
                           IF s.mu.pte[addr].f = fix THEN @
                           ELSE IF fix THEN @ + 1 ELSE @ - 1],
         Tail(maps), fix)

MmMulFixPage(s, page) ==
  IF Done(s) THEN s
  ELSE IF s.mu.page[page].fixCount = 0 THEN Halt(s, "assert_fixCount")
  ELSE MulFixMaps(s, s.mu.page[page].maps, TRUE)

MmMulUnfixPage(s, page) ==
  IF Done(s) THEN s ELSE MulFixMaps(s, s.mu.page[page].maps, FALSE)

MmFixPage(s, page) ==
  IF Done(s) \/ MM_PAGE_UNUSABLE \in s.mu.page[page].flags THEN s
  ELSE Bind([s EXCEPT !.mu.page[page].fixCount = @ + 1], LAMBDA t :
         IF MM_PAGE_FIXED \notin t.mu.page[page].flags
         THEN MmMulFixPage(
                [t EXCEPT !.mu.page[page].flags = @ \cup {MM_PAGE_FIXED},
                          !.mu.mmFixedPages = @ + 1],
                page)
         ELSE t)

MmUnfixPage(s, page) ==
  IF Done(s) \/ MM_PAGE_UNUSABLE \in s.mu.page[page].flags THEN s
  ELSE Bind([s EXCEPT !.mu.page[page].fixCount = @ - 1], LAMBDA t :
         IF t.mu.page[page].fixCount = 0
         THEN MmMulUnfixPage(
                [t EXCEPT !.mu.page[page].flags = @ \ {MM_PAGE_FIXED},
                          !.mu.mmFixedPages = @ - 1],
                page)
         ELSE t)

\* The page allocator and the page hash as the region allocator uses
\* them, over the one zone and the one bucket of this memory: MmAllocPage
\* (ev.mu.ret is the page, NoPage for NULL), MmFreePage, MmAddPage to the
\* kernel object, MmLookupPage in it and MmRemovePage.
MulAllocPage(s) ==
  IF Done(s) THEN s
  ELSE IF s.mu.free = <<>> THEN [s EXCEPT !.ev.mu.ret = NoPage]
  ELSE [s EXCEPT !.mu.free = Tail(@),
                 !.mu.page[Head(s.mu.free)].flags = {MM_PAGE_ALLOCED},
                 !.ev.mu.ret = Head(s.mu.free)]

MulFreePage(s, page) ==
  IF Done(s) THEN s
  ELSE IF s.mu.page[page].fixCount # 0 THEN Halt(s, "panic_fixed")
  ELSE [s EXCEPT !.mu.free = <<page>> \o @,
                 !.mu.page[page].flags = {MM_PAGE_FREE}]

MulAddPage(s, off, page) ==
  IF Done(s) THEN s
  ELSE IF MM_PAGE_IN_OBJECT \in s.mu.page[page].flags
  THEN Halt(s, "assert_in_object")
  ELSE [s EXCEPT !.mu.bucket = <<page>> \o @,
                 !.mu.page[page].offset = off,
                 !.mu.page[page].flags = @ \cup {MM_PAGE_IN_OBJECT}]

MulLookupPage(s, off) ==
  LET at == {i \in 1 .. Len(s.mu.bucket) :
               s.mu.page[s.mu.bucket[i]].offset = off} IN
  IF at = {} THEN NoPage ELSE s.mu.bucket[SetMin(at)]

MulRemovePage(s, page) ==
  IF Done(s) THEN s
  ELSE IF MM_PAGE_IN_OBJECT \notin s.mu.page[page].flags
  THEN Halt(s, "assert_not_in_object")
  ELSE [s EXCEPT !.mu.bucket = SelectSeq(@, LAMBDA x : x # page),
                 !.mu.page[page].offset = 0,
                 !.mu.page[page].flags =
                    (@ \cup {MM_PAGE_ALLOCED}) \ {MM_PAGE_IN_OBJECT}]

\* Brings memory in for the region at arena address p: page i of it is
\* allocated, fixed, entered in the kernel object and mapped.
RECURSIVE mmKvGetMemory(_, _, _)
mmKvGetMemory(s, p, numPages) ==
  IF numPages = 0 \/ Done(s) THEN s
  ELSE Bind(MulAllocPage(s), LAMBDA s1 :
         IF s1.ev.mu.ret = NoPage THEN Halt(s1, "panic_oom")
         ELSE mmKvGetMemory(
                UnlockPage(
                  MmMulMapPage(
                    MulAddPage(
                      MmFixPage(LockPage(s1, s1.ev.mu.ret), s1.ev.mu.ret),
                      p, s1.ev.mu.ret),
                    KmemAddr(p), s1.ev.mu.ret),
                  s1.ev.mu.ret),
                p + NEXKE_CPU_PAGESZ, numPages - 1))

\* The loop of mmKvFreeMemory over the pages of the kernel object.
RECURSIVE KvFreePages(_, _, _)
KvFreePages(s, offset, numPages) ==
  IF numPages = 0 \/ Done(s) THEN s
  ELSE KvFreePages(
         IF MulLookupPage(s, offset) = NoPage THEN s
         ELSE UnlockPage(
                MulFreePage(
                  MulRemovePage(
                    MmUnfixPage(LockPage(s, MulLookupPage(s, offset)),
                                MulLookupPage(s, offset)),
                    MulLookupPage(s, offset)),
                  MulLookupPage(s, offset)),
                MulLookupPage(s, offset)),
         offset + NEXKE_CPU_PAGESZ, numPages - 1)

mmKvFreeMemory(s, p, numPages) ==
  MmMulUnmapRange(KvFreePages(s, p, numPages), KmemAddr(p), numPages)

\* ------------------------------------------- kvmm.c: regions, continued

\* 32-bit words are held as the signed number with the same bits: a
\* numFreePages below zero is one that wrapped, and compares as large.
\* There is one arena.  On the boot arena (needsMap false) a request
\* without MM_KV_NO_DEMAND that it could satisfy takes the continue without
\* moving on to the next arena.  When mmAllocKvInArena returns NULL its
\* vaddr is read through NULL, which is the word list routines last stored
\* at address 0.  KvAllocIn is the part of the loop body that finds p.
KvAllocIn(s, numPages, g) ==
  Then(IF numPages = 1 THEN mmKvAllocFreeList(s, g) ELSE s,
       LAMBDA t:
         IF t.ev.kv.ret # 0 THEN [t EXCEPT !.kv.held = @ \cup {t.ev.kv.ret}]
         ELSE Then(mmAllocKvInArena(t, numPages, g),
                LAMBDA u:
                  IF u.ev.kv.reg = -1
                  THEN IF u.kv.link[KvNull].prev = KvNull THEN u
                       ELSE Halt(u, "wild_ret")
                  ELSE [u EXCEPT
                          !.ev.kv.ret = u.kv.region[u.ev.kv.reg].vaddr,
                          !.kv.held = @ \cup {u.kv.region[u.ev.kv.reg].vaddr}]))

MmAllocKvRegion(s, numPages, flags, g) ==
  IF Done(s) THEN s
  ELSE IF s.kv.numFreePages >= 0 /\ s.kv.numFreePages < numPages THEN s
  ELSE IF flags # MM_KV_NO_DEMAND /\ ~s.kv.needsMap THEN Halt(s, "hang_arena")
  ELSE Then(KvAllocIn(s, numPages, g),
            LAMBDA v:
              IF v.ev.kv.ret # 0 /\ flags = MM_KV_NO_DEMAND /\ v.kv.needsMap
              THEN mmKvGetMemory(v, v.ev.kv.ret, numPages)
              ELSE v)

\* The left half of mmKvJoinRegions; leaves the region to go on with in
\* ev.kv.reg.
KvJoinLeft(s, r, g) ==
  IF Done(s) THEN s
  ELSE IF r = 0 THEN [s EXCEPT !.ev.kv.reg = r]
  ELSE IF ~s.kv.region[r - 1].written
  THEN IF g = "alias" THEN Halt(s, "wild_join") ELSE [s EXCEPT !.ev.kv.reg = r]
  ELSE IF s.kv.region[r - 1].vaddr # MM_KV_FOOTER_MAGIC
  THEN [s EXCEPT !.ev.kv.reg = r]
  ELSE Then(KvLockRegion(s,
              mmKvGetRegion(s.kv.region[r].vaddr
                            - s.kv.region[r - 1].numPages * NEXKE_CPU_PAGESZ), g),
            LAMBDA t:
              LET l == mmKvGetRegion(s.kv.region[r].vaddr
                         - s.kv.region[r - 1].numPages * NEXKE_CPU_PAGESZ)
                  n == t.kv.region[l].numPages + t.kv.region[r].numPages
              IN IF ~t.kv.region[l].isFree THEN [t EXCEPT !.ev.kv.reg = r]
                 ELSE IF mmKvGetRegionFooter(t.kv.region[l].vaddr, n)
                           \notin 0..KvPages
                 THEN Halt(t, "wild")
                 ELSE [t EXCEPT
                         !.kv.region =
                           KvSetFooter([@ EXCEPT ![l].numPages = n],
                             mmKvGetRegionFooter(t.kv.region[l].vaddr, n), n),
                         !.ev.kv.reg = l])

\* The right half of mmKvJoinRegions for region r.
KvJoinRight(s, r, g) ==
  IF Done(s) THEN s
  ELSE LET nx == mmKvGetRegionFooter(s.kv.region[r].vaddr,
                                     s.kv.region[r].numPages) + 1
       IN IF nx \notin 0..KvPages THEN Halt(s, "wild")
          ELSE IF ~s.kv.region[nx].init /\ g = "alias" THEN Halt(s, "wild_join")
          ELSE Then(KvLockRegion(s, nx, g),
                 LAMBDA t:
                   LET n == t.kv.region[r].numPages + t.kv.region[nx].numPages IN
                   IF ~(/\ t.kv.region[nx].vaddr
                             = t.kv.region[r].vaddr
                               + t.kv.region[r].numPages * NEXKE_CPU_PAGESZ
                        /\ t.kv.region[nx].isFree)
                   THEN t
                   ELSE IF mmKvGetRegionFooter(t.kv.region[r].vaddr, n)
                             \notin 0..KvPages
                   THEN Halt(t, "wild")
                   ELSE [t EXCEPT
                           !.kv.link = LinkRemove(@, nx),
                           !.kv.region =
                             KvSetFooter([@ EXCEPT ![r].numPages = n],
                               mmKvGetRegionFooter(t.kv.region[r].vaddr, n), n)])

mmKvJoinRegions(s, r, g) ==
  Then(KvJoinLeft(s, r, g), LAMBDA t: KvJoinRight(t, t.ev.kv.reg, g))

\* The part of MmFreeKvRegion that gives the region back to the arena.
KvFreeIn(s, mem, g) ==
  IF Done(s) THEN s
  ELSE LET r == mmKvGetRegion(mem)
           numPages == s.kv.region[r].numPages
       IN Then([s EXCEPT !.kv.region[r].isFree = TRUE,
                         !.kv.numFreePages = @ + numPages,
                         !.kv.held = @ \ {mem}],
               LAMBDA t:
                 IF numPages = 1 /\ t.kv.freeListSz <= MM_KV_MAX_FREELIST
                 THEN [t EXCEPT !.kv.link = LinkAddFront(@, KvFreeList, r),
                                !.kv.freeListSz = @ + 1]
                 ELSE IF numPages = 0 THEN Halt(t, "assert")
                 ELSE Then(mmKvJoinRegions(t, r, g),
                        LAMBDA u:
                          [u EXCEPT
                             !.kv.link =
                               LinkAddFront(@,
                                 KvBucketNode(mmKvGetBucket(
                                   u.kv.region[u.ev.kv.reg].numPages)),
                                 u.ev.kv.reg)]))

\* numPages is read from the region structure before the region is joined.
MmFreeKvRegion(s, mem, g) ==
  IF Done(s) THEN s
  ELSE Then(KvFreeIn(s, mem, g),
            LAMBDA t:
              IF t.kv.needsMap
              THEN mmKvFreeMemory(t, mem,
                                  s.kv.region[mmKvGetRegion(mem)].numPages)
              ELSE t)

\* ------------------------------------------------------ the state machine

\* State after TskInitSys, the creation of the initial thread (main.c) and
\* TskSetInitialThread with the initial thread's entry stub.
InitThreads ==
  [t \in Tids |->
     IF t = IdleTid
     THEN NewThreadObj(TSK_POLICY_FIFO, TSK_PRIO_WORKER, {TSK_THREAD_IDLE})
     ELSE IF t = InitTid
     THEN [NewThreadObj(TSK_POLICY_NORMAL, TSK_PRIO_HIGH, {}) EXCEPT
             !.state = TSK_THREAD_RUNNING,
             !.quantaLeft = TSK_TIMESLICE_LEN,
             !.cont = "none"]
     ELSE NoThreadObj]

InitCcb ==
  [ curThread |-> InitTid, idleThread |-> IdleTid, curPriority |-> 0,
    readyQueues |-> EmptyQueues, readyMask |-> {}, rqLock |-> NkSpinUnlocked,
    preemptDisable |-> 0, preemptReq |-> FALSE, intActive |-> FALSE,
    curIpl |-> PLT_IPL_LOW ]

Init ==
  /\ thread = InitThreads
  /\ ccb = InitCcb
  /\ nkThreadsLock = NkSpinUnlocked
  /\ nkTerminator = {}
  /\ halt = "none"
  /\ pc = "run"
  /\ ev = NoEv
  /\ hist = [clear |-> [t \in Tids |-> 0], ticks |-> 0]
  /\ plt = InitPlt
  /\ pm = InitPm
  /\ kv = InitKv
  /\ mu = InitMu

\* The state an operation starts from.
Begin == [Machine EXCEPT !.ev = NoEv]

\* Installs the machine state r an operation has left behind.
Commit(r) ==
  /\ thread' = r.thread
  /\ ccb' = r.ccb
  /\ nkThreadsLock' = r.nkThreadsLock
  /\ nkTerminator' = r.nkTerminator
  /\ halt' = r.halt
  /\ ev' = r.ev
  /\ hist' = r.hist
  /\ plt' = r.plt
  /\ pm' = r.pm
  /\ kv' = r.kv
  /\ mu' = r.mu
  /\ pc' = IF r.halt # "none" THEN "halted"
           ELSE IF r.ev.sel # "none" THEN "resume"
           ELSE "run"

\* Kernel code of the current (non-idle) thread runs at IPL_LOW.
ThreadCtx ==
  /\ pc = "run"
  /\ ccb.curThread # ccb.idleThread
  /\ ccb.curIpl = PLT_IPL_LOW

\* A hardware interrupt can be taken.
IntCtx ==
  /\ pc = "run"
  /\ ccb.curIpl < PLT_IPL_TIMER

FreeSlots == {t \in DynTids : ~thread[t].alloc}

CreateThread(policy, prio) ==
  /\ ThreadCtx
  /\ FreeSlots # {}
  /\ Commit(TskCreateThread(Begin,
                            SetMin(FreeSlots), policy, prio, {}))

StartThread(t) ==
  /\ ThreadCtx
  /\ thread[t].alloc
  /\ t # ccb.idleThread
  /\ thread[t].state = TSK_THREAD_CREATED
  /\ Commit(TskStartThread(Begin, t))

Yield ==
  /\ ThreadCtx
  /\ Commit(TskYield(Begin))

DisablePreempt ==
  /\ ThreadCtx
  /\ ccb.preemptDisable < MaxPreemptDisable
  /\ Commit(TskDisablePreempt(Begin))

EnablePreempt ==
  /\ ThreadCtx
  /\ ccb.preemptDisable > 0
  /\ Commit(TskEnablePreempt(Begin))

SetThreadPrio(t, newPrio) ==
  /\ ThreadCtx
  /\ thread[t].alloc
  /\ t # ccb.idleThread
  /\ Commit(TskSetThreadPrio(Begin, t, newPrio))

WaitQueue(timeout) ==
  /\ ThreadCtx
  /\ Commit(TskWaitQueueTimeout(Begin, timeout, "wait"))

\* The wait object of thread w can be reached by a waker: a wait was
\* asserted on it.
Wakeable(w) ==
  /\ thread[w].alloc
  /\ thread[w].wait.waiter # NoThread

\* A thread wakes the waiter of w's wait object (at IPL_HIGH).
Wake(w) ==
  /\ ThreadCtx
  /\ Wakeable(w)
  /\ Commit(PltLowerIpl(
              ClearAndWake(PltRaiseIpl(Begin, PLT_IPL_HIGH),
                           w, TSK_WAITOBJ_SUCCESS),
              PLT_IPL_LOW))

Tick ==
  /\ IntCtx
  /\ Commit(PltTrapDispatch(
              Begin,
              "Tick", NoThread))

TimerExpire(w) ==
  /\ IntCtx
  /\ thread[w].alloc
  /\ thread[w].timeoutReg
  /\ Commit(PltTrapDispatch(Begin, "TimerExpire", w))

DeviceWake(w) ==
  /\ IntCtx
  /\ Wakeable(w)
  /\ Commit(PltTrapDispatch(Begin, "DeviceWake", w))

TerminateSelf ==
  /\ ThreadCtx
  /\ Commit(TskTerminateSelf(Begin))

Terminator(t) ==
  /\ ThreadCtx
  /\ t \in nkTerminator
  /\ Commit(TskTerminator(Begin, t))

JoinThread(t, timeout) ==
  /\ ThreadCtx
  /\ thread[t].alloc
  /\ t # ccb.curThread
  /\ t # ccb.idleThread
  /\ Commit(TskJoinThread(
              Begin,
              t, timeout))

\* The thread that TskSchedule selected runs on from where it was suspended.
Resume ==
  /\ pc = "resume"
  /\ Commit(ResumeThread(Begin, ccb.curThread))

Next ==
  \/ \E policy \in {TSK_POLICY_NORMAL, TSK_POLICY_FIFO}, prio \in PrioSet :
        CreateThread(policy, prio)
  \/ \E t \in Tids : StartThread(t)
  \/ Yield
  \/ DisablePreempt
  \/ EnablePreempt
  \/ \E t \in Tids, p \in PrioSet : SetThreadPrio(t, p)
  \/ \E timeout \in {0, 1} : WaitQueue(timeout)
  \/ \E w \in Tids : Wake(w)
  \/ Tick
  \/ \E w \in Tids : TimerExpire(w)
  \/ \E w \in Tids : DeviceWake(w)
  \/ Resume

Spec == Init /\ [][Next]_vars

\* Thread lifetime: creation, joining, termination and the terminator, with
\* the scheduling operations they rest on (no time-slice ticks, no priority
\* changes).
NextLife ==
  \/ \E policy \in {TSK_POLICY_NORMAL, TSK_POLICY_FIFO}, prio \in PrioSet :
        CreateThread(policy, prio)
  \/ \E t \in Tids : StartThread(t)
  \/ Yield
  \/ DisablePreempt
  \/ EnablePreempt
  \/ \E timeout \in {0, 1} : WaitQueue(timeout)
  \/ \E w \in Tids : Wake(w)
  \/ \E w \in Tids : TimerExpire(w)
  \/ \E w \in Tids : DeviceWake(w)
  \/ TerminateSelf
  \/ \E t \in Tids : Terminator(t)
  \/ \E t \in Tids, timeout \in {0, 1} : JoinThread(t, timeout)
  \/ Resume

SpecLife == Init /\ [][NextLife]_vars

\* --------------------------------------- interrupt core: state machines

\* The state an operation of the interrupt core starts from.
BeginInt(op) ==
  [Begin EXCEPT !.ev.int.op = op,
                !.ev.int.iplWas = ccb.curIpl,
                !.ev.int.pdWas = ccb.preemptDisable,
                !.ev.int.was =
                   IF op = "connect"
                   THEN [chain |-> plt.chain, nkIntTable |-> plt.nkIntTable,
                         cpuInts |-> plt.cpuInts, hw |-> plt.hw]
                   ELSE @]

\* Record h is linked on the chain of some line.
Linked(h) == \E g \in Lines : h \in Range(plt.chain[g].list)

\* Driver bring-up code: thread context at IPL_LOW, outside all handlers.
DriverCtx ==
  /\ pc = "run"
  /\ plt.frames = <<>>
  /\ plt.iplStack = <<>>
  /\ ccb.curIpl = PLT_IPL_LOW

InitInterrupt(h, gsi, ipl, mode, flags) ==
  /\ DriverCtx
  /\ ~Linked(h)
  /\ Commit(PltInitInterrupt(BeginInt("init"), h, gsi, ipl, mode, flags))

ConnectInterrupt(h, wild) ==
  /\ DriverCtx
  /\ plt.hw[h].init
  /\ ~Linked(h)
  /\ Commit(PltConnectInterrupt([BeginInt("connect") EXCEPT !.ev.int.h = h],
                                h, wild))

DisconnectInterrupt(h, wild) ==
  /\ DriverCtx
  /\ Linked(h)
  /\ Commit(PltDisconnectInterrupt(BeginInt("disconnect"), h, wild))

InitInternalInt(h, vector, ipl, mode, flags) ==
  /\ DriverCtx
  /\ ~Linked(h)
  /\ Commit(PltInitInternalInt(BeginInt("init"), h, vector, ipl, mode, flags))

\* Depth of iplStack at which the running context (the innermost handler,
\* or the thread) started.
CtxDepth ==
  IF plt.frames = <<>> THEN 0 ELSE plt.frames[Len(plt.frames)].depth

\* PltRaiseIpl (n): the value returned is kept for the matching lower.
RaiseIpl(n) ==
  /\ pc = "run"
  /\ Len(plt.iplStack) < MaxIplNest
  /\ Commit(
       Bind(PltRaiseIpl([BeginInt("raise") EXCEPT !.ev.int.n = n], n),
            LAMBDA r :
              IF Halted(r) THEN r
              ELSE [PltIplHw(r, n) EXCEPT
                      !.ev.int.iplRet = ccb.curIpl,
                      !.plt.iplStack =
                         Append(@, [ret |-> ccb.curIpl, before |-> ccb.curIpl])]))

\* PltLowerIpl (n), with the value the innermost open raise returned or,
\* when the running context has no raise open, with a level that is not
\* below the current one.
LowerIpl(n) ==
  /\ pc = "run"
  /\ IF Len(plt.iplStack) > CtxDepth
     THEN n = plt.iplStack[Len(plt.iplStack)].ret
     ELSE n >= ccb.curIpl
  /\ Commit(
       Bind(PltLowerIpl([BeginInt("lower") EXCEPT !.ev.int.n = n], n),
            LAMBDA r :
              IF Halted(r) THEN r
              ELSE IF Len(plt.iplStack) > CtxDepth
              THEN [PltIplHw(r, n) EXCEPT
                      !.ev.int.paired = TRUE,
                      !.ev.int.pairedBefore =
                         plt.iplStack[Len(plt.iplStack)].before,
                      !.plt.iplStack = SubSeq(@, 1, Len(@) - 1)]
              ELSE PltIplHw(r, n)))

\* The CPU takes the interrupt of line gsi.
HwInterrupt(gsi, begun) ==
  /\ pc = "run"
  /\ Deliverable(plt, gsi)
  /\ Len(plt.frames) < MaxTrapNest
  /\ Commit(PltTrapEnter(BeginInt("trap"), gsi, begun))

\* The running handler returns, with every raise of its own lowered again.
HandlerReturn(claimed) ==
  /\ pc = "run"
  /\ plt.frames # <<>>
  /\ Len(plt.iplStack) = CtxDepth
  /\ Commit(PltTrapNext(BeginInt("handler"), claimed))

\* Flag words drivers pass to PltInitInterrupt.
HwFlagSets ==
  {{}, {PLT_HWINT_ACTIVE_LOW}, {PLT_HWINT_NON_CHAINABLE},
   {PLT_HWINT_ACTIVE_LOW, PLT_HWINT_NON_CHAINABLE}}

\* What a read outside the line map can come to.
WildReads == {"fault", "nonzero", "zero"}

\* Connecting and disconnecting hardware interrupts on one line (GSI 11,
\* IPL 8, as in the chaining scenario of the specification).
NextInt ==
  \/ \E h \in HwIds, mode \in {PLT_MODE_EDGE, PLT_MODE_LEVEL},
        flags \in HwFlagSets :
       InitInterrupt(h, 11, 8, mode, flags)
  \/ \E h \in HwIds, wild \in BOOLEAN : ConnectInterrupt(h, wild)
  \/ \E h \in HwIds, wild \in WildReads : DisconnectInterrupt(h, wild)

SpecInt == Init /\ [][NextInt]_vars

\* The vectors and IPLs internal interrupts are set up with: the local
\* APIC's error and timer vectors.
InternalVectors == {PLT_APIC_ERROR, PLT_APIC_TIMER}
InternalIpls == {8, PLT_IPL_TIMER}

\* Internal interrupts and the interrupts of one line, connected and
\* disconnected in any order.
NextChain ==
  \/ \E h \in HwIds, flags \in {{}, {PLT_HWINT_ACTIVE_LOW}} :
       InitInterrupt(h, 11, 8, PLT_MODE_LEVEL, flags)
  \/ \E h \in HwIds, vector \in InternalVectors, ipl \in InternalIpls,
        mode \in {PLT_MODE_EDGE, PLT_MODE_LEVEL} :
       InitInternalInt(h, vector, ipl, mode, {})
  \/ \E h \in HwIds, wild \in BOOLEAN : ConnectInterrupt(h, wild)
  \/ \E h \in HwIds, wild \in WildReads : DisconnectInterrupt(h, wild)

SpecChain == Init /\ [][NextChain]_vars

\* IPL changes and trap dispatch over level-triggered interrupts.
NextIpl ==
  \/ \E h \in HwIds, g \in Gsis, ipl \in HwIplSet,
        flags \in {{}, {PLT_HWINT_NON_CHAINABLE}} :
       InitInterrupt(h, g, ipl, PLT_MODE_LEVEL, flags)
  \/ \E h \in HwIds, wild \in BOOLEAN : ConnectInterrupt(h, wild)
  \/ \E n \in IplSet : RaiseIpl(n)
  \/ \E n \in IplSet : LowerIpl(n)
  \/ \E g \in Gsis, begun \in BOOLEAN : HwInterrupt(g, begun)
  \/ \E claimed \in BOOLEAN : HandlerReturn(claimed)

SpecIpl == Init /\ [][NextIpl]_vars

\* ------------------------------------------------- page allocator callers
\* Callers free pages they hold (ALLOCED, not in an object).  One call may
\* be a FreePage of a page that is FREE already: the model follows the
\* program up to the end of that call (misuse) and not further.

BeginPm(op) == [Begin EXCEPT !.ev.pm.op = op, !.pm.ops = @ + 1]

\* A caller may call: no call has hung or panicked, none was a misuse, and
\* fewer than MaxPageOps calls have been made.
PmCaller == pc = "run" /\ ~pm.misuse /\ pm.ops < MaxPageOps

Held(p) == p \in DOMAIN pm.page /\ pm.page[p].flags = {MM_PAGE_ALLOCED}

AllocPage ==
  /\ PmCaller
  /\ Commit(MmAllocPage(BeginPm("alloc")))

AllocPagesAt(count, maxAddr, align, fault) ==
  /\ PmCaller
  /\ Commit(MmAllocPagesAt(
              [BeginPm("allocAt") EXCEPT !.ev.pm.count = count,
                                         !.ev.pm.maxAddr = maxAddr,
                                         !.ev.pm.align = align],
              count, maxAddr, align, fault))

FreePage(page) ==
  /\ PmCaller
  /\ Held(page) \/ MM_PAGE_FREE \in pm.page[page].flags
  /\ Commit(MmFreePage(
              [BeginPm("free") EXCEPT !.ev.pm.page = page,
                                      !.pm.misuse = ~Held(page)],
              page))

FreePages(pages, count) ==
  /\ PmCaller
  /\ \A i \in 0 .. count - 1 : Held(pages + i)
  /\ Commit(MmFreePages(
              [BeginPm("freePages") EXCEPT !.ev.pm.page = pages,
                                           !.ev.pm.count = count],
              pages, count))

AddPage(obj, off, page) ==
  /\ PmCaller
  /\ Held(page)
  /\ Commit(MmAddPage([BeginPm("add") EXCEPT !.ev.pm.page = page], obj, off, page))

RemovePage(page) ==
  /\ PmCaller
  /\ MM_PAGE_IN_OBJECT \in pm.page[page].flags
  /\ Commit(MmRemovePage([BeginPm("remove") EXCEPT !.ev.pm.page = page], page))

NextPage ==
  \/ AllocPage
  \/ \E count \in 1 .. 2, maxAddr \in {0, 4 * NEXKE_CPU_PAGESZ},
        align \in {NEXKE_CPU_PAGESZ, 2 * NEXKE_CPU_PAGESZ}, fault \in BOOLEAN :
       AllocPagesAt(count, maxAddr, align, fault)
  \/ \E page \in 0 .. NumPfn - 1 : FreePage(page)
  \/ \E page \in 0 .. NumPfn - 1, count \in 1 .. 2 : FreePages(page, count)
  \/ \E page \in 0 .. NumPfn - 1, off \in {0, NEXKE_CPU_PAGESZ} :
       AddPage(2 * NEXKE_CPU_PAGESZ, off, page)
  \/ \E page \in 0 .. NumPfn - 1 : RemovePage(page)

SpecPage == Init /\ [][NextPage]_vars

\* ---------------------------------------------- region allocator calls

\* Region sizes asked for, and what a read of boot pool memory that was
\* never written can give: zero, a lock that is held, or a structure that
\* passes for a free neighbour.
KvSizes == {1, 2, 5, 33}

KvGarbage == {"zero", "locked", "alias"}

\* For every bucket the sizes of the regions on its list, each with the
\* number of regions of that size, and the free page count.
RECURSIVE KvWalk(_, _, _)
KvWalk(link, iter, fuel) ==
  IF fuel = 0 \/ iter \notin 0..KvPages THEN <<>>
  ELSE <<iter>> \o KvWalk(link, link[iter].next, fuel - 1)

KvBucketSizes(k, b) ==
  LET w == KvWalk(k.link, KvListFront(k.link, KvBucketNode(b)), KvPages + 1)
  IN { <<k.region[w[i]].numPages,
         Cardinality({j \in DOMAIN w :
                        k.region[w[j]].numPages = k.region[w[i]].numPages})>> :
       i \in DOMAIN w }

KvShape(k) ==
  [ free |-> k.numFreePages,
    sizes |-> [b \in 0..(MM_KV_MAX_BUCKETS - 1) |-> KvBucketSizes(k, b)] ]

BeginKv(op) ==
  [Begin EXCEPT !.ev.kv.op = op, !.kv.ops = @ + 1,
                !.ev.mu.numMapsWas = mu.numMaps]

AllocKvRegion(numPages, flags, g) ==
  /\ pc = "run"
  /\ Commit(MmAllocKvRegion(
              [BeginKv("alloc") EXCEPT !.ev.kv.numPages = numPages,
                                       !.ev.kv.flags = flags,
                                       !.ev.kv.shape = KvShape(kv)],
              numPages, flags, g))

\* mem is a pointer MmAllocKvRegion returned that was not freed since.
FreeKvRegion(mem, g) ==
  /\ pc = "run"
  /\ mem \in kv.held
  /\ Commit(MmFreeKvRegion(
              [BeginKv("free") EXCEPT
                 !.ev.kv.ret = mem,
                 !.ev.kv.paired = (ev.kv.op = "alloc" /\ ev.kv.ret = mem),
                 !.ev.kv.numPages = IF ev.kv.op = "alloc" /\ ev.kv.ret = mem
                                    THEN ev.kv.numPages ELSE 0,
                 !.ev.kv.flags = IF ev.kv.op = "alloc" /\ ev.kv.ret = mem
                                 THEN ev.kv.flags ELSE 0,
                 !.ev.kv.shape = IF ev.kv.op = "alloc" /\ ev.kv.ret = mem
                                 THEN ev.kv.shape ELSE <<>>],
              mem, g))

NextKv ==
  \/ \E numPages \in KvSizes, flags \in {0, MM_KV_NO_DEMAND}, g \in KvGarbage :
       kv.ops < MaxKvOps /\ AllocKvRegion(numPages, flags, g)
  \/ \E mem \in kv.held, g \in KvGarbage :
       kv.ops < MaxKvOps /\ FreeKvRegion(mem, g)

SpecKv == Init /\ [][NextKv]_vars

\* Single pages only: long enough runs of one-page allocations and frees
\* to fill the free list of single pages.
MaxKvListOps == 11

NextKvList ==
  \/ \E g \in KvGarbage :
       kv.ops < MaxKvListOps /\ AllocKvRegion(1, MM_KV_NO_DEMAND, g)
  \/ \E mem \in kv.held, g \in KvGarbage :
       kv.ops < MaxKvListOps /\ FreeKvRegion(mem, g)

SpecKvList == Init /\ [][NextKvList]_vars

\* ------------------------------------------- the MMU layer on its own
\* The kernel after MmInitKvm2: the one arena is the arena of the kernel
\* address space (needsMap true), whose regions are mapped on allocation.
\* Next to the region allocator the kernel maps, unmaps, fixes and unfixes
\* pages it has allocated, and the fake page of an MMIO frame, at the
\* addresses behind the arena.

MaxMulOps == 5

InitMul ==
  /\ thread = InitThreads
  /\ ccb = InitCcb
  /\ nkThreadsLock = NkSpinUnlocked
  /\ nkTerminator = {}
  /\ halt = "none"
  /\ pc = "run"
  /\ ev = NoEv
  /\ hist = [clear |-> [t \in Tids |-> 0], ticks |-> 0]
  /\ plt = InitPlt
  /\ pm = InitPm
  /\ kv = [InitKv EXCEPT !.needsMap = TRUE]
  /\ mu = InitMu

MulBudget == kv.ops + mu.ops < MaxMulOps

BeginMu(op) == [Begin EXCEPT !.ev.mu.op = op, !.mu.ops = @ + 1]

\* Pages the kernel holds outside the kernel object, and the fake page.
MulHeld ==
  {p \in 0 .. MulPages - 1 :
     /\ MM_PAGE_FREE \notin mu.page[p].flags
     /\ MM_PAGE_IN_OBJECT \notin mu.page[p].flags}

AllocMulPage ==
  /\ pc = "run"
  /\ MulBudget
  /\ Commit(MulAllocPage(BeginMu("allocpage")))

\* fresh: virt had no mapping and the page was not fixed.
MapPage(virt, page) ==
  /\ pc = "run"
  /\ MulBudget
  /\ Commit(MmMulMapPage(
              [BeginMu("map") EXCEPT
                 !.ev.mu.virt = virt,
                 !.ev.mu.page = page,
                 !.ev.mu.numMapsWas = mu.numMaps,
                 !.ev.mu.numFixedWas = mu.numFixed,
                 !.ev.mu.fresh = /\ mu.pte[mulDecanonical(virt)] = NoPte
                                 /\ MM_PAGE_FIXED \notin mu.page[page].flags],
              virt, page))

\* paired: the call before this one mapped a page at virt, and did not
\* halt; the counters before that call are carried over.
UnmapRange(virt, count) ==
  /\ pc = "run"
  /\ MulBudget
  /\ Commit(MmMulUnmapRange(
              [BeginMu("unmap") EXCEPT
                 !.ev.mu.virt = virt,
                 !.ev.mu.paired = (ev.mu.op = "map" /\ ev.mu.virt = virt),
                 !.ev.mu.fresh = (ev.mu.op = "map" /\ ev.mu.fresh),
                 !.ev.mu.page = IF ev.mu.op = "map" THEN ev.mu.page ELSE NoPage,
                 !.ev.mu.numMapsWas =
                    IF ev.mu.op = "map" THEN ev.mu.numMapsWas ELSE mu.numMaps,
                 !.ev.mu.numFixedWas =
                    IF ev.mu.op = "map" THEN ev.mu.numFixedWas ELSE mu.numFixed],
              virt, count))

FixPage(page) ==
  /\ pc = "run"
  /\ MulBudget
  /\ Commit(MmFixPage([BeginMu("fix") EXCEPT !.ev.mu.page = page], page))

\* A page is unfixed by who fixed it.
UnfixPage(page) ==
  /\ pc = "run"
  /\ MulBudget
  /\ mu.page[page].fixCount > 0
  /\ Commit(MmUnfixPage([BeginMu("unfix") EXCEPT !.ev.mu.page = page], page))

NextMul ==
  \/ \E numPages \in {1, MM_KV_REFILL_VAL}, g \in KvGarbage :
       MulBudget /\ AllocKvRegion(numPages, MM_KV_NO_DEMAND, g)
  \/ \E mem \in kv.held, g \in KvGarbage : MulBudget /\ FreeKvRegion(mem, g)
  \/ AllocMulPage
  \/ \E virt \in MulSpareVaddrs, page \in MulHeld \cup {MulFakePage} :
       MapPage(virt, page)
  \/ \E virt \in MulSpareVaddrs : UnmapRange(virt, 1)
  \/ \E page \in MulHeld : FixPage(page)
  \/ \E page \in MulHeld : UnfixPage(page)

SpecMul == InitMul /\ [][NextMul]_vars

\* ------------------------------------------------------------ properties

\* Priorities whose ready queue in the family q is not empty.
NonEmpty(q) == {p \in PrioSet : q[p] # <<>>}

\* Number of links of thread t on ready queue p.
LinksOn(t, p) ==
  Cardinality({i \in 1 .. Len(ccb.readyQueues[p]) : ccb.readyQueues[p][i] = t})

\* Ready queues thread t is linked on.
QueuesOf(t) == {p \in PrioSet : LinksOn(t, p) > 0}

\* C1: immediately after tskSchedule has made its selection, no thread
\* linked on a ready queue has a strictly higher priority (lower number)
\* than ccb.curThread, the selected thread was the head of the
\* lowest-numbered non-empty ready queue, and the idle thread is current
\* only if every ready queue was empty.
C1_ScheduleSelection ==
  pc = "resume" =>
    /\ \A p \in PrioSet : \A t \in Range(ccb.readyQueues[p]) :
          /\ ~(thread[t].priority < thread[ccb.curThread].priority)
          /\ ~(p < thread[ccb.curThread].priority)
    /\ NonEmpty(ev.selQ) # {} =>
          ccb.curThread = Head(ev.selQ[SetMin(NonEmpty(ev.selQ))])
    /\ ccb.curThread = ccb.idleThread => NonEmpty(ev.selQ) = {}

\* A selection out of a queue that held two threads.
C1_Witness ==
  /\ pc = "resume"
  /\ ev.sel = "switch"
  /\ \E p \in PrioSet : Len(ev.selQ[p]) = 2 /\ ccb.curThread = Head(ev.selQ[p])

\* C2: at every point where the run-queue lock is free, at most one thread
\* (the idle thread included) has state RUNNING, and that thread is
\* ccb.curThread.
C2_OneRunning ==
  ccb.rqLock = NkSpinUnlocked =>
    \A t \in Tids :
      (thread[t].alloc /\ thread[t].state = TSK_THREAD_RUNNING)
        => t = ccb.curThread

\* The lock is free after a switch between two threads.
C2_Witness ==
  /\ ccb.rqLock = NkSpinUnlocked
  /\ pc = "run"
  /\ ccb.curThread = T1Tid
  /\ thread[T1Tid].state = TSK_THREAD_RUNNING
  /\ thread[InitTid].state = TSK_THREAD_READY

\* C3: whenever the run-queue lock is free, bit p of the ready bitmap is
\* set if and only if ready queue p is non-empty.
C3_BitmapMatchesQueues ==
  ccb.rqLock = NkSpinUnlocked =>
    \A p \in PrioSet : (p \in ccb.readyMask) <=> (ccb.readyQueues[p] # <<>>)

\* The lock is free with a queue that has become empty again and one that
\* is not empty.
C3_Witness ==
  /\ ccb.rqLock = NkSpinUnlocked
  /\ ccb.curThread = T1Tid
  /\ ccb.readyMask = {TSK_PRIO_USER}
  /\ thread[T1Tid].priority = TSK_PRIO_HIGH

\* C4: whenever the run-queue lock is free, a thread has state READY if and
\* only if it is linked on exactly one ready queue and that queue is the
\* one indexed by its current priority; no thread is ever linked on two
\* queues at the same time.
C4_ReadyIffLinked ==
  /\ ccb.rqLock = NkSpinUnlocked =>
        \A t \in Tids :
          (thread[t].alloc /\ thread[t].state = TSK_THREAD_READY)
            <=> /\ QueuesOf(t) = {thread[t].priority}
                /\ LinksOn(t, thread[t].priority) = 1
  /\ \A t \in Tids : Cardinality(QueuesOf(t)) <= 1

\* The lock is free with a READY thread that was moved to the queue of a
\* new priority.
C4_Witness ==
  /\ ccb.rqLock = NkSpinUnlocked
  /\ pc = "run"
  /\ thread[T1Tid].state = TSK_THREAD_READY
  /\ thread[T1Tid].priority = 10
  /\ thread[T1Tid].cont = "sched"
  /\ ccb.readyQueues[10] = <<T1Tid>>

\* C5: for an asserted wait, exactly the first call of TskClearWait returns
\* true and sets the result; every later call returns false and leaves the
\* result unchanged.  (A call is the first one exactly when no call has
\* returned true since the wait was asserted.)
C5_FirstClearWins ==
  ev.clear.w # NoThread =>
    /\ ev.clear.ret <=> (ev.clear.trueBefore = 0)
    /\ ev.clear.ret => thread[ev.clear.w].wait.result = ev.clear.res
    /\ ~ev.clear.ret => thread[ev.clear.w].wait.result = ev.clear.was

\* A success waker that lost against the timeout.
C5_Witness ==
  /\ ev.clear.w # NoThread
  /\ ~ev.clear.ret
  /\ ev.clear.res = TSK_WAITOBJ_SUCCESS
  /\ ev.clear.was = TSK_WAITOBJ_TIMEOUT
  /\ thread[ev.clear.w].wait.result = TSK_WAITOBJ_TIMEOUT

\* C6: every return of TskWaitOnObj is preceded by exactly one TskClearWait
\* call that returned true for that wait, with result SUCCESS when
\* TskWaitOnObj returns true and TIMEOUT when it returns false; the result
\* is never IN_PROG when TskWaitOnObj returns.
C6_WaitReturn ==
  ev.waitRet # NoThread =>
    /\ hist.clear[ev.waitRet] = 1
    /\ thread[ev.waitRet].wait.result # TSK_WAITOBJ_IN_PROG
    /\ ev.ret \in {"true", "false"}
    /\ ev.ret = "true" => thread[ev.waitRet].wait.result = TSK_WAITOBJ_SUCCESS
    /\ ev.ret = "false" => thread[ev.waitRet].wait.result = TSK_WAITOBJ_TIMEOUT

\* A wait with a deadline has returned false after its timeout.
C6_Witness ==
  /\ ev.waitRet # NoThread
  /\ ev.ret = "false"
  /\ thread[ev.waitRet].wait.timeout # 0
  /\ thread[ev.waitRet].wait.result = TSK_WAITOBJ_TIMEOUT
  /\ hist.clear[ev.waitRet] = 1

\* C7: while the preemption-disable counter is greater than zero, tskPreempt
\* performs no context switch: it marks the current thread preempted, sets
\* preemptReq and leaves ccb.curThread unchanged.
C7_PreemptDeferred ==
  (ev.preempt.called /\ ev.preempt.pd > 0) =>
    /\ ev.preempt.curAfter = ev.preempt.curBefore
    /\ ev.preempt.reqAfter
    /\ ev.preempt.preemptedAfter
    /\ ev.sel = "none"
    /\ ccb.curThread = ev.preempt.curBefore

\* The time-slice handler has requested a preemption inside a hardware
\* interrupt taken while preemption was disabled.
C7_Witness ==
  /\ ev.preempt.called
  /\ ev.preempt.pd > 0
  /\ ev.tick > 0
  /\ ccb.preemptReq
  /\ thread[ccb.curThread].preempted

\* The cases of C8 for thread R: it is started as a CREATED thread of
\* priority 10 while the current thread has priority 30 and preemption is
\* disabled; the counter returns to zero with the request pending.
C8_Started(R) ==
  /\ pc = "run"
  /\ thread[R].alloc
  /\ thread[R].state = TSK_THREAD_CREATED
  /\ thread[R].priority = 10
  /\ thread[ccb.curThread].priority = TSK_PRIO_USER
  /\ ccb.preemptDisable > 0
  /\ thread'[R].state # TSK_THREAD_CREATED

C8_Enabled(R) ==
  /\ pc = "run"
  /\ thread[R].alloc
  /\ thread[R].state = TSK_THREAD_READY
  /\ thread[R].priority = 10
  /\ thread[ccb.curThread].priority = TSK_PRIO_USER
  /\ ccb.preemptDisable > 0
  /\ ccb.preemptReq
  /\ ccb'.preemptDisable = 0

\* C8: if a CREATED thread R of priority 10 is started with TskStartThread
\* while the current thread has priority 30 and preemption is disabled,
\* preemptReq becomes set, and when the preemption-disable counter next
\* returns to zero the pending request runs tskSchedule and leaves
\* ccb.curThread = R with preemptReq cleared.
C8_StartThenEnable ==
  [][\A R \in DynTids :
       /\ C8_Started(R) => (ccb'.preemptReq /\ thread'[R].state = TSK_THREAD_READY)
       /\ C8_Enabled(R) =>
            /\ ev'.preempt.called /\ ev'.preempt.scheduled
            /\ ccb'.curThread = R
            /\ ~ccb'.preemptReq]_vars

\* R runs for the first time, switched to from a priority-30 thread by the
\* preemption that was pending when preemption was enabled.
C8_Witness ==
  /\ pc = "resume"
  /\ ev.preempt.called /\ ev.preempt.scheduled
  /\ ev.sel = "switch"
  /\ ccb.curThread = T1Tid
  /\ thread[T1Tid].priority = 10
  /\ thread[T1Tid].cont = "entry"
  /\ thread[ev.old].priority = TSK_PRIO_USER
  /\ ccb.preemptDisable = 0
  /\ ~ccb.preemptReq

\* C9: a non-FIFO thread that runs uninterrupted from the moment it is made
\* current with quantaLeft = quantum has preemption requested by the
\* time-slice tick that brings quantaLeft to zero, its quantum-th tick
\* (the 6th), and not on a later tick.
C9_QuantumTick ==
  /\ ev.tick = TSK_TIMESLICE_LEN => ev.preempt.called
  /\ ev.tick > TSK_TIMESLICE_LEN => ~ev.preempt.called

\* C10: a thread object is freed at most once, only after the thread has
\* entered TERMINATING and only by the TskDestroyThread call that drops its
\* reference count from one to zero; the count is one at creation and rises
\* by exactly one, with the thread lock released afterwards, for each
\* TskJoinThread / TskJoinThreadTimeout reference.
C10_RefCounting ==
  /\ ev.freed # NoThread =>
        /\ ev.freedWas.refCount = 1
        /\ ev.freedWas.state = TSK_THREAD_TERMINATING
  /\ ev.created # NoThread => thread[ev.created].refCount = 1
  /\ ev.ref # NoThread =>
        /\ thread[ev.ref].refCount = ev.refWas + 1
        /\ thread[ev.ref].lock = NkSpinUnlocked

\* The record a PltConnectInterrupt call was made for, as it was before the
\* call, and the record at the head of the chain of its line then.
ConnRec == ev.int.was.hw[ev.int.h]
ConnLine == ConnRec.gsi
ConnHead == ev.int.was.hw[Head(ev.int.was.chain[ConnLine].list)]

\* The call was made for a second record on a line one record is on.
ConnSecond ==
  /\ ev.int.op = "connect"
  /\ halt = "none"
  /\ Len(ev.int.was.chain[ConnLine].list) = 1
  /\ ev.int.was.chain[ConnLine].lock = NkSpinUnlocked

\* The record at the head of the chain was connected by the controller: its
\* vector is one the controller allocated and the table holds its object.
ConnHeadInstalled ==
  \E o \in ev.int.was.nkIntTable :
     /\ o.vector = ConnHead.vector
     /\ o.vector > 0
     /\ o.type = PLT_INT_HWINT
     /\ o.intChain = ConnLine

\* Same polarity.
SamePolarity(f1, f2) ==
  (PLT_HWINT_ACTIVE_LOW \in f1) <=> (PLT_HWINT_ACTIVE_LOW \in f2)

\* C11: after record A has been connected on a level-triggered line,
\* PltConnectInterrupt for a second record B on the same line, with
\* matching mode and polarity and without NON_CHAINABLE, succeeds on the
\* vector of A and leaves the chain with length 2 and CHAINED set on both
\* records.
C11_ChainSecond ==
  ( /\ ConnSecond
    /\ ConnHeadInstalled
    /\ ConnHead.mode = PLT_MODE_LEVEL
    /\ ConnRec.mode = PLT_MODE_LEVEL
    /\ SamePolarity(ConnRec.flags, ConnHead.flags)
    /\ PLT_HWINT_NON_CHAINABLE \notin ConnRec.flags
    /\ PLT_HWINT_NON_CHAINABLE \notin ConnHead.flags )
  => /\ ev.int.ret = "obj"
     /\ ev.int.vector = ConnHead.vector
     /\ plt.hw[ev.int.h].vector = ConnHead.vector
     /\ plt.chain[ConnLine].chainLen = 2
     /\ Len(plt.chain[ConnLine].list) = 2
     /\ \A x \in Range(plt.chain[ConnLine].list) :
           PLT_HWINT_CHAINED \in plt.hw[x].flags

\* C12: when PltConnectInterrupt is called for a record that may not share
\* its already-used line (NON_CHAINABLE set, mode or polarity mismatch, or
\* edge-triggered), it reports failure and leaves the chain's records and
\* length, the interrupt table, the chain lock (released) and the CPU
\* interrupt-enable state as they were before the call.
C12_RejectLeavesState ==
  ( /\ ConnSecond
    /\ ConnHeadInstalled
    /\ \/ PLT_HWINT_NON_CHAINABLE \in ConnRec.flags
       \/ ConnRec.mode # ConnHead.mode
       \/ ~SamePolarity(ConnRec.flags, ConnHead.flags)
       \/ ConnRec.mode = PLT_MODE_EDGE )
  => /\ ev.int.ret = "null"
     /\ plt.chain[ConnLine].list = ev.int.was.chain[ConnLine].list
     /\ plt.chain[ConnLine].chainLen = ev.int.was.chain[ConnLine].chainLen
     /\ plt.chain[ConnLine].lock = NkSpinUnlocked
     /\ plt.nkIntTable = ev.int.was.nkIntTable
     /\ plt.cpuInts = ev.int.was.cpuInts

\* C13: PltRaiseIpl (n) panics without changing the IPL of the CCB when n is
\* below the current IPL, PltLowerIpl (n) panics when n is above the current
\* IPL, and otherwise each sets the IPL of the CCB to n; PltLowerIpl
\* applied to the value a PltRaiseIpl returned restores the IPL that held
\* before that raise, at any nesting of raise/lower pairs.
C13_RaiseLower ==
  /\ ev.int.op = "raise" =>
        IF ev.int.n < ev.int.iplWas
        THEN halt = "panic_raise" /\ ccb.curIpl = ev.int.iplWas
        ELSE halt = "none" /\ ccb.curIpl = ev.int.n
                           /\ ev.int.iplRet = ev.int.iplWas
  /\ ev.int.op = "lower" =>
        IF ev.int.n > ev.int.iplWas
        THEN halt = "panic_lower"
        ELSE halt = "none" /\ ccb.curIpl = ev.int.n
  /\ (ev.int.op = "lower" /\ ev.int.paired) =>
        halt = "none" /\ ccb.curIpl = ev.int.pairedBefore

\* An inner pair of two nested raise/lower pairs has been closed, above
\* IPL_LOW.
C13_Witness ==
  /\ ev.int.op = "lower"
  /\ ev.int.paired
  /\ Len(plt.iplStack) = 1
  /\ ccb.curIpl = ev.int.pairedBefore
  /\ ccb.curIpl > PLT_IPL_LOW
  /\ ev.int.iplWas > ccb.curIpl

\* Every object of the interrupt table is at a vector of the table.
TableInBounds == \A o \in plt.nkIntTable : o.vector > 0

\* C14: no handler of a hardware interrupt whose chain has IPL L starts
\* while the IPL of the interrupted code is L or above, and the IPL of the
\* CCB decreases only through PltLowerIpl or through the trap dispatcher
\* restoring the IPL from before the trap.
C14_IplMasks ==
  TableInBounds =>
    /\ (ev.int.op \in {"trap", "handler"} /\ ev.int.entered) =>
          ev.int.iplIntr < ev.int.enteredIpl
    /\ ccb.curIpl < ev.int.iplWas =>
          \/ ev.int.op = "lower"
          \/ ev.int.op = "handler" /\ ev.int.returned # "none"

\* C15: when PltTrapDispatch returns from a hardware interrupt (claimed by
\* a handler, claimed by none, or spurious), the IPL of the CCB and the
\* preemption-disable counter are what they were at trap entry, intActive
\* is false and the chain lock is released.
C15_TrapRestores ==
  ( /\ TableInBounds
    /\ ev.int.op \in {"trap", "handler"}
    /\ ev.int.returned # "none"
    /\ ev.int.lockEntry = NkSpinUnlocked
    /\ halt = "none" ) =>
    /\ ccb.curIpl = ev.int.iplEntry
    /\ ccb.preemptDisable = ev.int.pdEntry
    /\ ~ccb.intActive
    /\ plt.chain[ev.int.gsi].lock = NkSpinUnlocked

\* The pages linked on a list, from its head on (at most n of them).
RECURSIVE ListWalk(_, _, _, _)
ListWalk(link, head, at, n) ==
  IF at = head \/ n = 0 THEN <<>>
  ELSE <<at>> \o ListWalk(link, head, link[at].next, n - 1)

\* The free list of zone z in allocator state p.
FreeList(p, z) == ListWalk(p.link, -z, p.link[-z].next, NumPfn + 1)

\* No zone lock is held.
ZonesUnlocked(p) == \A z \in DOMAIN p.zone : p.zone[z].lock = NkSpinUnlocked

\* C16: after any sequence of MmAllocPage, MmAllocPagesAt, MmFreePage and
\* MmFreePages calls, the free count of every zone equals the number of
\* pages linked on its free list and is at most the page count of the
\* zone, and the free counts of the zones add up to mmFreePages.
C16_FreeCounts ==
  ~pm.misuse =>
    /\ \A z \in DOMAIN pm.zone :
         /\ pm.zone[z].freeCount = Len(FreeList(pm, z))
         /\ pm.zone[z].freeCount <= pm.zone[z].numPages
    /\ pm.zone[1].freeCount + pm.zone[2].freeCount = pm.mmFreePages

\* C17: after any sequence of MmAllocPage, MmAddPage, MmRemovePage and
\* MmFreePage calls, the flags of every page contain exactly one of FREE,
\* ALLOCED and IN_OBJECT.
C17_OneStateFlag ==
  ~pm.misuse =>
    \A p \in DOMAIN pm.page :
       Cardinality(pm.page[p].flags
                     \cap {MM_PAGE_FREE, MM_PAGE_ALLOCED, MM_PAGE_IN_OBJECT}) = 1

\* C18: a successful MmAllocPagesAt (count, maxAddr, align) returns count
\* frames of consecutive PFNs, the first aligned to align, all below
\* maxAddr, every one FREE and on the free list of the zone immediately
\* before the call; the free count of the zone drops by count, and the
\* zone lock is released on every return.
C18_AllocPagesAt ==
  [][(ev'.pm.op = "allocAt" /\ ZonesUnlocked(pm)) =>
        /\ ev'.pm.ret # -1 =>
             /\ \A j \in 0 .. ev'.pm.count - 1 :
                  /\ ev'.pm.ret + j < NumPfn
                  /\ PagePfn(ev'.pm.ret + j) = PagePfn(ev'.pm.ret) + j
                  /\ MM_PAGE_FREE \in pm.page[ev'.pm.ret + j].flags
                  /\ ev'.pm.ret + j \in Range(FreeList(pm, ev'.pm.zone))
             /\ (PagePfn(ev'.pm.ret) * NEXKE_CPU_PAGESZ) % ev'.pm.align = 0
             /\ ev'.pm.maxAddr # 0 =>
                  (PagePfn(ev'.pm.ret) + ev'.pm.count) * NEXKE_CPU_PAGESZ
                     <= ev'.pm.maxAddr
             /\ pm'.zone[ev'.pm.zone].freeCount
                  = pm.zone[ev'.pm.zone].freeCount - ev'.pm.count
        /\ halt' = "none" => ZonesUnlocked(pm')]_vars

\* C19: MmFreePage of a page that is FREE already panics; it neither links
\* the page on the free list a second time nor increases a free counter.
C19_DoubleFree ==
  [][( /\ ev'.pm.op = "free"
       /\ MM_PAGE_FREE \in pm.page[ev'.pm.page].flags
       /\ ZonesUnlocked(pm) ) =>
        /\ halt' # "none"
        /\ pm'.link = pm.link
        /\ \A z \in DOMAIN pm.zone : pm'.zone[z].freeCount <= pm.zone[z].freeCount
        /\ pm'.mmFreePages <= pm.mmFreePages]_vars

\* C20: when MmFreeKvRegion directly follows the MmAllocKvRegion that
\* returned its pointer, the arena has the free page count and, in every
\* bucket, the multiset of free region sizes it had before the allocation.
C20_AllocFreeRoundTrip ==
  (ev.kv.op = "free" /\ ev.kv.paired /\ halt = "none")
    => KvShape(kv) = ev.kv.shape

\* C27 as stated: whenever a thread's lock is free, the thread is WAITING
\* if and only if its wait result is IN_PROG and its waitAsserted flag is 1.
C27_WaitingIffAsserted ==
  \A t \in Tids :
    (thread[t].alloc /\ thread[t].lock = NkSpinUnlocked)
      => ((thread[t].state = TSK_THREAD_WAITING)
            <=> (/\ thread[t].wait.result = TSK_WAITOBJ_IN_PROG
                 /\ thread[t].waitAsserted = 1))

\* C27, amended: whenever a thread's lock is free, waitAsserted is 1 only
\* while the thread is the current thread, in state WAITING with wait result
\* IN_PROG (between TskAssertWait and the tskStopThread that parks it); a
\* WAITING thread that has been switched out has waitAsserted 0.
C27_AssertedUntilParked ==
  \A t \in Tids :
    (thread[t].alloc /\ thread[t].lock = NkSpinUnlocked)
      => /\ thread[t].waitAsserted \in {0, 1}
         /\ thread[t].waitAsserted = 1
              => /\ thread[t].state = TSK_THREAD_WAITING
                 /\ thread[t].wait.result = TSK_WAITOBJ_IN_PROG
                 /\ t = ccb.curThread
         /\ (thread[t].state = TSK_THREAD_WAITING /\ t # ccb.curThread)
              => thread[t].waitAsserted = 0

\* A thread parked by TskWaitOnObj: WAITING, switched out, its lock free and
\* its wait still in progress.
C27_Witness ==
  \E t \in Tids :
    /\ thread[t].alloc
    /\ thread[t].lock = NkSpinUnlocked
    /\ thread[t].state = TSK_THREAD_WAITING
    /\ thread[t].wait.result = TSK_WAITOBJ_IN_PROG
    /\ thread[t].wait.waiter = t
    /\ t # ccb.curThread
    /\ halt = "none"

\* Thread t left the CREATED or the WAITING state for READY in this step:
\* TskStartThread or TskWakeObj admitted it.
MadeReady(t) ==
  /\ thread[t].alloc
  /\ thread[t].state \in {TSK_THREAD_CREATED, TSK_THREAD_WAITING}
  /\ thread'[t].state = TSK_THREAD_READY
  /\ pc' # "halted"

\* Thread t is the last link of the ready queue of its priority.
AtTail(c, th, t) ==
  LET q == c.readyQueues[th[t].priority]
  IN Len(q) > 0 /\ q[Len(q)] = t

\* C28: a thread made ready by TskStartThread or TskWakeObj is linked at
\* the tail of the ready queue of its priority, behind every thread
\* already READY there, and its quantaLeft is reset to its quantum.
C28_ReadyAtTail ==
  [][\A t \in Tids :
       MadeReady(t) =>
         /\ thread'[t].quantaLeft = thread'[t].quantum
         /\ AtTail(ccb', thread', t)]_vars

\* C30: whenever the run-queue lock is held the IPL of the CCB is
\* IPL_HIGH: the lock is released before any thread, one that runs for
\* the first time from TskThreadEntry included, lowers the IPL.
C30_RqLockAtIplHigh ==
  (halt = "none" /\ NkSpinLockHeld(ccb.rqLock)) => ccb.curIpl = PLT_IPL_HIGH

\* C29: no path takes the run-queue lock while it holds a thread lock,
\* and none takes a chain lock while it holds the run-queue lock or a
\* thread lock (lock order chain, run queue, thread).
C29_LockOrder == ev.order = {}

\* C24: after PltDisconnectInterrupt has removed the last record of a
\* chain, the chain is empty, its vector is released and no interrupt
\* object remains installed for the line, so that a later
\* PltConnectInterrupt of a record to the line, whose chain is empty as it
\* is for a line never used, returns the interrupt object.
C24_LastDisconnectReleases ==
  /\ (ev.int.op = "disconnect" /\ halt = "none") =>
        \A g \in Gsis :
          plt.chain[g].chainLen = 0 =>
            /\ plt.chain[g].list = <<>>
            /\ plt.redir[g].masked
            /\ plt.redir[g].vector \notin plt.vectorMap
            /\ \A e \in plt.nkIntTable : e.intChain # g
  /\ (/\ ev.int.op = "connect"
      /\ halt = "none"
      /\ ConnRec.ipl <= PLT_IPL_TIMER
      /\ ev.int.was.chain[ConnLine].chainLen = 0) =>
        ev.int.ret = "obj"

\* Polarity of a record.
ActiveLow(h) == PLT_HWINT_ACTIVE_LOW \in plt.hw[h].flags

\* C25: all records linked on the same chain, the chain of the internal
\* interrupts included, have the same vector, IPL, trigger mode and
\* polarity.
C25_ChainUniform ==
  \A g \in Lines :
    \A a, b \in Range(plt.chain[g].list) :
      /\ plt.hw[a].vector = plt.hw[b].vector
      /\ plt.hw[a].ipl = plt.hw[b].ipl
      /\ plt.hw[a].mode = plt.hw[b].mode
      /\ ActiveLow(a) = ActiveLow(b)

\* C26: the CHAINED flag of the record at the head of a chain is set if
\* and only if the chain holds two records or more.
C26_HeadChainedIffLong ==
  \A g \in Lines :
    (halt = "none" /\ plt.chain[g].list # <<>>) =>
      (PLT_HWINT_CHAINED \in plt.hw[Head(plt.chain[g].list)].flags
         <=> plt.chain[g].chainLen >= 2)

\* The PTE of page i of the region at arena address p.
KvPte(p, i) == mu.pte[mulDecanonical(KmemAddr(p + i * NEXKE_CPU_PAGESZ))]

\* C21: in the arena of the kernel address space, MmAllocKvRegion of 8
\* pages with MM_KV_NO_DEMAND leaves 8 present PTEs with the fixed bit, and
\* MmFreeKvRegion of that region right after it does not panic, leaves the
\* 8 PTEs empty and takes 8 off numMaps.
C21_KvMapsAndUnmaps ==
  /\ ( /\ kv.needsMap
       /\ ev.kv.op = "alloc"
       /\ ev.kv.numPages = MM_KV_REFILL_VAL
       /\ ev.kv.flags = MM_KV_NO_DEMAND
       /\ ev.kv.ret # 0
       /\ halt = "none" )
     => \A i \in 0 .. MM_KV_REFILL_VAL - 1 :
          KvPte(ev.kv.ret, i).p /\ KvPte(ev.kv.ret, i).f
  /\ ( /\ kv.needsMap
       /\ ev.kv.op = "free"
       /\ ev.kv.paired
       /\ ev.kv.numPages = MM_KV_REFILL_VAL
       /\ ev.kv.flags = MM_KV_NO_DEMAND )
     => /\ halt = "none"
        /\ \A i \in 0 .. MM_KV_REFILL_VAL - 1 : KvPte(ev.kv.ret, i) = NoPte
        /\ mu.numMaps = ev.mu.numMapsWas - MM_KV_REFILL_VAL

\* C22: MmMulMapPage of a page that is not fixed (the fake page of an MMIO
\* frame included) at an address that had no mapping, followed by
\* MmMulUnmapRange of that one address, leaves numMaps and numFixed as they
\* were before the two calls and leaves no entry for the address on the
\* map list of the page.
C22_MapUnmapRestores ==
  (ev.mu.op = "unmap" /\ ev.mu.paired /\ ev.mu.fresh)
    => /\ halt = "none"
       /\ mu.numMaps = ev.mu.numMapsWas
       /\ mu.numFixed = ev.mu.numFixedWas
       /\ ev.mu.virt \notin Range(mu.page[ev.mu.page].maps)

\* PTEs that map page p.
PtesOf(p) == {a \in DOMAIN mu.pte : mu.pte[a].p /\ mu.pte[a].pfn = MulPfn(p)}

\* C23: after MmFixPage of a usable page every PTE that maps it has the
\* fixed bit, and after the MmUnfixPage that takes its fix count to zero no
\* PTE that maps it has, whether the mapping was made before or while the
\* page was fixed.
C23_FixBitFollowsFixCount ==
  /\ (ev.mu.op = "fix" /\ halt = "none")
       => \A a \in PtesOf(ev.mu.page) : mu.pte[a].f
  /\ (ev.mu.op = "unfix" /\ halt = "none" /\ mu.page[ev.mu.page].fixCount = 0)
       => \A a \in PtesOf(ev.mu.page) : ~mu.pte[a].f

\* C39: whenever the run-queue lock is free, ccb.curPriority is the
\* priority of ccb.curThread, from the initial thread switch on.
C39_CurPriorityIsCurrent ==
  (halt = "none" /\ ~NkSpinLockHeld(ccb.rqLock))
    => ccb.curPriority = thread[ccb.curThread].priority

\* A thread other than the initial thread runs at a priority other than
\* the one the CCB started with, and the CCB has it.
C39_Witness ==
  /\ halt = "none"
  /\ ~NkSpinLockHeld(ccb.rqLock)
  /\ ccb.curThread = T1Tid
  /\ thread[T1Tid].priority = TSK_PRIO_USER
  /\ ccb.curPriority = TSK_PRIO_USER

\* C38: no scheduler entry point acquires the run-queue lock or a thread
\* lock that this CPU already holds, so none of them spins forever.
C38_NoSelfDeadlock == halt \notin {"spin_rqLock", "spin_threadLock"}

\* C35: MmAllocKvRegion terminates for every flags value: it does not go
\* round its arena loop or a bucket list forever, and when it returns it
\* returns NULL or a region it has taken from the arena.
C35_AllocTerminates ==
  ev.kv.op = "alloc"
    => /\ halt \notin {"hang_arena", "hang_walk"}
       /\ halt = "none" => (ev.kv.ret = 0 \/ ev.kv.ret \in kv.held)

\* C37: the free list of single pages never holds more than
\* MM_KV_MAX_FREELIST regions.
C37_FreeListBounded == kv.freeListSz <= MM_KV_MAX_FREELIST

\* The regions on the list with head node h, from its front on, and the
\* heads of the lists of free regions.
KvListOf(k, h) == KvWalk(k.link, KvListFront(k.link, h), KvPages + 2)

KvHeads == {KvBucketNode(b) : b \in 0 .. MM_KV_MAX_BUCKETS - 1} \cup {KvFreeList}

\* Pages of the region with structure r.
KvPagesOf(k, r) ==
  {k.region[r].vaddr + i * NEXKE_CPU_PAGESZ : i \in 0 .. k.region[r].numPages - 1}

\* Each region is met once on the walk of list h.
KvListSimple(k, h) ==
  /\ Len(KvListOf(k, h)) <= KvPages + 1
  /\ \A i, j \in DOMAIN KvListOf(k, h) :
       i # j => KvListOf(k, h)[i] # KvListOf(k, h)[j]

\* No region is on two lists.
KvListsDisjoint(k) ==
  \A g, h \in KvHeads :
    g # h => Range(KvListOf(k, g)) \cap Range(KvListOf(k, h)) = {}

\* Every region on a list is on the list of its size.
KvListsSized(k) ==
  /\ \A r \in Range(KvListOf(k, KvFreeList)) : k.region[r].numPages = 1
  /\ \A b \in 0 .. MM_KV_MAX_BUCKETS - 1 :
       \A r \in Range(KvListOf(k, KvBucketNode(b))) :
         mmKvGetBucket(k.region[r].numPages) = b

\* The regions on the lists have no page in common.
KvListsApart(k) ==
  \A g, h \in KvHeads :
    \A r \in Range(KvListOf(k, g)), q \in Range(KvListOf(k, h)) :
      r # q => KvPagesOf(k, r) \cap KvPagesOf(k, q) = {}

\* C36: after any sequence of MmAllocKvRegion and MmFreeKvRegion every
\* region that is linked is met once on one list, the free list of single
\* pages or the bucket of its size, and linked regions have no page in
\* common: a neighbour absorbed by a merge is off its list before the
\* merged region is linked.
C36_FreeRegionsOnOneList ==
  halt = "none"
    => /\ \A h \in KvHeads : KvListSimple(kv, h)
       /\ KvListsDisjoint(kv)
       /\ KvListsSized(kv)
       /\ KvListsApart(kv)

\* C40: a thread that calls TskTerminateSelf is destroyed once its joiners
\* have returned, those whose TskJoinThreadTimeout timed out included.  As a
\* property of each TskTerminateSelf step: the call does not hang on the
\* thread's own lock (which a joiner's reference would have to have
\* released), and when it completes the thread is either handed to the
\* terminator or has a joiner left that will drop the last reference.
C40_JoinedThreadIsDestroyed ==
  [][TerminateSelf =>
       /\ halt' # "spin_threadLock"
       /\ halt' = "none" =>
            \/ ccb.curThread \in nkTerminator'
            \/ \E j \in Tids : /\ thread'[j].alloc
                               /\ thread'[j].joinTarget = ccb.curThread]_vars

\* ----------------------------------------- page.c: initialisation (boot)

NEXBOOT_MEM_FREE == 1
NEXBOOT_MEM_RESVD == 2
MM_ZONE_RESVD == 4
MAX_ZONES == 1024

\* The memory maps the boot loader hands over: BootMapSize entries of a base
\* frame, a size in frames (0: an empty entry) and a type; entries are page
\* aligned.  Entries may repeat, share a base, overlap or touch.
BootMapSize == 3
MaxBootBase == 3
MaxBootSz == 2

BootEntries ==
  [ base : 0 .. MaxBootBase, sz : 0 .. MaxBootSz,
    type : {NEXBOOT_MEM_FREE, NEXBOOT_MEM_RESVD} ]

BootMaps == [1 .. BootMapSize -> BootEntries]

\* Step 1 of MmInitPage: frames to represent in the first n entries.  The
\* cap at NEXKE_PFNMAP_MAX / sizeof (MmPage_t) lies far above these maps.
RECURSIVE BootNumPfns(_, _)
BootNumPfns(memMap, n) ==
  IF n = 0 THEN 0
  ELSE BootNumPfns(memMap, n - 1)
       + IF memMap[n].sz = 0 \/ memMap[n].type # NEXBOOT_MEM_FREE
         THEN 0 ELSE memMap[n].sz

\* Step 2: the size of the page hash, doubled from n while it is below half
\* the number of frames.
RECURSIVE BootNumBuckets(_, _)
RECURSIVE BootNumBuckets_Below(_, _)

\* The doubling stopped before it passes half the number of frames.
BootNumBuckets_Below(n, numPfns) ==
  IF n * 2 <= numPfns \div 2 THEN BootNumBuckets_Below(n * 2, numPfns) ELSE n

BootNumBuckets(n, numPfns) ==
  IF n < numPfns \div 2 THEN BootNumBuckets(n * 2, numPfns) ELSE n

\* Step 3: the PFN map and the page hash are carved from the end of the
\* first free entry before lastMapEnt that is larger than them; for maps of
\* this size they take one frame.
BootPageMapFrames == 1

BootCarve(memMap, lastMapEnt) ==
  LET fit == {i \in 1 .. lastMapEnt :
                /\ memMap[i].type = NEXBOOT_MEM_FREE
                /\ memMap[i].sz >= BootPageMapFrames}
  IN IF fit = {} THEN memMap
     ELSE [memMap EXCEPT ![SetMin(fit)].sz = @ - BootPageMapFrames]

mmZonesOverlap(z1, z2) ==
  \/ (z1.pfn + z1.numPages > z2.pfn /\ z1.pfn < z2.pfn)
  \/ (z2.pfn + z2.numPages > z1.pfn /\ z2.pfn < z1.pfn)
  \/ (z1.pfn > z2.pfn /\ z1.pfn + z1.numPages < z2.pfn + z2.numPages)
  \/ (z2.pfn > z1.pfn /\ z2.pfn + z2.numPages < z1.pfn + z1.numPages)

\* The loop of mmZoneInsert from array position i on: 0 when a zone it has
\* come to overlaps the new one, otherwise the position to insert at.
RECURSIVE mmZoneInsertAt(_, _, _)
mmZoneInsertAt(mmZones, zone, i) ==
  IF i > Len(mmZones) THEN i
  ELSE IF mmZonesOverlap(mmZones[i], zone) THEN 0
  ELSE IF zone.pfn < mmZones[i].pfn THEN i
  ELSE mmZoneInsertAt(mmZones, zone, i + 1)

\* Sorted insert into the zone array; the array is left as it was when the
\* zone is refused.
mmZoneInsert(mmZones, zone) ==
  LET at == mmZoneInsertAt(mmZones, zone, 1) IN
  IF Len(mmZones) >= MAX_ZONES \/ at = 0 THEN mmZones
  ELSE SubSeq(mmZones, 1, at - 1) \o <<zone>>
       \o SubSeq(mmZones, at, Len(mmZones))

\* b is the boot-time state of the page layer.
mmZoneCreate(b, startPfn, numPfns, flags) ==
  LET alloc == MM_ZONE_ALLOCATABLE \in flags
      zone == [ pfn |-> startPfn, numPages |-> numPfns, flags |-> flags,
                freeCount |-> IF alloc THEN numPfns ELSE 0 ]
  IN [b EXCEPT !.mmNumPages = IF alloc THEN @ + numPfns ELSE @,
               !.mmZones = mmZoneInsert(@, zone)]

\* Step 4: a zone for each of the first n entries before lastMapEnt.
RECURSIVE BootCreateZones(_, _, _)
BootCreateZones(b, memMap, n) ==
  IF n = 0 THEN b
  ELSE LET b0 == BootCreateZones(b, memMap, n - 1) IN
       IF memMap[n].sz = 0 THEN b0
       ELSE mmZoneCreate(b0, memMap[n].base, memMap[n].sz,
                         IF memMap[n].type = NEXBOOT_MEM_RESVD
                         THEN {MM_ZONE_RESVD} ELSE {MM_ZONE_ALLOCATABLE})

\* The merge loop of MmInitPage from position curZone on, with mmZoneMerge
\* and mmZoneRemove.
RECURSIVE BootMergeZones(_, _)
BootMergeZones(mmZones, curZone) ==
  IF curZone > Len(mmZones) THEN mmZones
  ELSE LET z1 == mmZones[curZone - 1]
           z2 == mmZones[curZone]
       IN IF z1.pfn + z1.numPages = z2.pfn /\ z1.flags = z2.flags
          THEN BootMergeZones(
                 SubSeq(mmZones, 1, curZone - 2)
                 \o <<[z1 EXCEPT !.numPages = @ + z2.numPages,
                                 !.freeCount = @ + z2.freeCount]>>
                 \o SubSeq(mmZones, curZone + 1, Len(mmZones)),
                 curZone)
          ELSE BootMergeZones(mmZones, curZone + 1)

\* PC boards: the first allocatable zone, which ends below 16M here, is
\* closed to generic allocations.
BootLowZone(mmZones) ==
  LET low == {i \in 1 .. Len(mmZones) : MM_ZONE_ALLOCATABLE \in mmZones[i].flags}
  IN IF low = {} THEN mmZones
     ELSE [mmZones EXCEPT ![SetMin(low)].flags = @ \cup {MM_ZONE_NO_GENERIC}]

\* MmInitPage over the memory map of the boot state b.
MmInitPage(b) ==
  LET mapSize == Len(b.memMap)
      lastMapEnt == mapSize - 1
      numPfns == BootNumPfns(b.memMap, mapSize)
      memMap == BootCarve(b.memMap, lastMapEnt)
      b0 == BootCreateZones(b, memMap, lastMapEnt)
  IN [b0 EXCEPT !.phase = "up",
                !.numPfns = numPfns,
                !.mmNumBuckets = BootNumBuckets(1, numPfns),
                !.mmZones = BootLowZone(BootMergeZones(@, 2))]

\* The page layer before MmInitPage, handed the memory map m.
BootPm(m) ==
  [ phase |-> "boot", memMap |-> m, mmZones |-> <<>>, mmNumPages |-> 0,
    numPfns |-> 0, mmNumBuckets |-> 0 ]

InitBoot ==
  /\ thread = InitThreads
  /\ ccb = InitCcb
  /\ nkThreadsLock = NkSpinUnlocked
  /\ nkTerminator = {}
  /\ halt = "none"
  /\ pc = "run"
  /\ ev = NoEv
  /\ hist = [clear |-> [t \in Tids |-> 0], ticks |-> 0]
  /\ plt = InitPlt
  /\ pm \in {BootPm(m) : m \in BootMaps}
  /\ kv = InitKv
  /\ mu = InitMu

InitPage ==
  /\ pm.phase = "boot"
  /\ pm' = MmInitPage(pm)
  /\ UNCHANGED <<thread, ccb, nkThreadsLock, nkTerminator, halt, pc, ev,
                 hist, plt, kv, mu>>

NextBoot == InitPage

SpecBoot == InitBoot /\ [][NextBoot]_vars

\* C31: after MmInitPage over any memory map, the zone array is sorted by
\* base frame and no two zones share a frame: for consecutive zones, base
\* plus count of the first is at most the base of the next.
C31_ZonesSortedDisjoint ==
  pm.phase = "up" =>
    \A i \in 1 .. Len(pm.mmZones) - 1 :
      pm.mmZones[i].pfn + pm.mmZones[i].numPages <= pm.mmZones[i + 1].pfn

\* The zone array is sorted by base frame (not strictly).
C31_ZonesSorted ==
  pm.phase = "up" =>
    \A i \in 1 .. Len(pm.mmZones) - 1 :
      pm.mmZones[i].pfn <= pm.mmZones[i + 1].pfn

\* C32: for every usable page count N >= 2, MmInitPage sets the number of
\* page hash buckets to the greatest power of two that is at most N / 2.
IsPow2(n) == \E k \in 0 .. 5 : n = 2 ^ k

C32_BucketsGreatestPow2Below ==
  (pm.phase = "up" /\ pm.numPfns >= 2) =>
    /\ IsPow2(pm.mmNumBuckets)
    /\ 2 * pm.mmNumBuckets <= pm.numPfns
    /\ 4 * pm.mmNumBuckets > pm.numPfns

\* C32 as the code has it: for every usable page count N >= 2 the number of
\* page hash buckets is the least power of two that is at least N / 2
\* (integer division).
C32_BucketsLeastPow2Above ==
  (pm.phase = "up" /\ pm.numPfns >= 2) =>
    /\ IsPow2(pm.mmNumBuckets)
    /\ pm.mmNumBuckets >= pm.numPfns \div 2
    /\ pm.mmNumBuckets > 1 => pm.mmNumBuckets \div 2 < pm.numPfns \div 2

\* Six usable frames: half is three, and the page hash has four buckets.
C32_Witness ==
  /\ pm.phase = "up"
  /\ pm.numPfns = 6
  /\ pm.mmNumBuckets = 4

\* ------------------------------------------------------------- ptab.c

MM_PTAB_MINFREE == 2
MM_PTAB_FREETARGET == 8
MM_PTAB_UNCACHED == 0

\* Slots of the page table cache (MUL_MAX_PTCACHE, scaled), paging levels
\* (mmNumLevels) and physical tables.  PtNull is the NULL entry pointer.
PtSlots == 3
PtNumLevels == 2
PtTables == 2
PtNull == 0

PtEnts == 1 .. PtSlots
PtLevels == 0 .. PtNumLevels
PtTabs == 1 .. PtTables

\* What the last call into the cache was given and returned, whether the
\* lookup found the table, and the entries in use, the free count and the
\* free list as they were before the call.
NoPtEv ==
  [ op |-> "none", ptab |-> PtNull, level |-> 0, ret |-> PtNull,
    hit |-> FALSE,
    was |-> [ inUse |-> {}, freeCount |-> 0, free |-> {} ] ]

\* The cache after MmPtabInitCache: every entry on the free list.
InitPtCache ==
  [ ent |-> [i \in PtEnts |->
               [ next |-> IF i = PtSlots THEN PtNull ELSE i + 1,
                 prev |-> IF i = 1 THEN PtNull ELSE i - 1,
                 inUse |-> FALSE, ptab |-> PtNull, level |-> 0 ]],
    ptFreeList |-> 1,
    freeCount |-> PtSlots,
    ptLists |-> [l \in PtLevels |-> PtNull],
    ptListsEnd |-> [l \in PtLevels |-> PtNull],
    done |-> FALSE,
    last |-> NoPtEv ]

\* Entries on the free list of cache c, from entry e on.
RECURSIVE PtFreeFrom(_, _, _)
PtFreeFrom(c, e, fuel) ==
  IF e = PtNull \/ fuel = 0 THEN {}
  ELSE {e} \cup PtFreeFrom(c, c.ent[e].next, fuel - 1)

PtFreeSet(c) == PtFreeFrom(c, c.ptFreeList, PtSlots)

\* Takes the head off the free list (the caller has read the head).
mmPtabGetFree(s) ==
  LET n == s.mu.ent[s.mu.ptFreeList].next IN
  [s EXCEPT !.mu.ptFreeList = n,
            !.mu.ent = IF n # PtNull THEN [@ EXCEPT ![n].prev = PtNull] ELSE @,
            !.mu.freeCount = @ - 1]

mmPtabFreeEntry(s, e) ==
  LET h == s.mu.ptFreeList
      ent1 == [s.mu.ent EXCEPT ![e].next = h, ![e].prev = PtNull]
  IN [s EXCEPT !.mu.ent = IF h # PtNull THEN [ent1 EXCEPT ![h].prev = e]
                          ELSE ent1,
               !.mu.ptFreeList = e,
               !.mu.freeCount = @ + 1]

mmPtabRemoveEntry(s, e) ==
  LET level == s.mu.ent[e].level
      ent0 == s.mu.ent
      ent1 == IF ent0[e].next # PtNull
              THEN [ent0 EXCEPT ![ent0[e].next].prev = ent0[e].prev] ELSE ent0
      ent2 == IF ent1[e].prev # PtNull
              THEN [ent1 EXCEPT ![ent1[e].prev].next = ent1[e].next] ELSE ent1
  IN [s EXCEPT !.mu.ent = ent2,
               !.mu.ptLists[level] = IF e = @ THEN ent2[e].next ELSE @,
               !.mu.ptListsEnd[level] = IF e = @ THEN ent2[e].prev ELSE @]

\* Links entry e in front of the list of the level; the head pointer is
\* written only when the list was empty.
mmPtabAddToList(s, e, level) ==
  LET h == s.mu.ptLists[level]
      ent1 == [s.mu.ent EXCEPT ![e].prev = PtNull, ![e].next = h]
  IN IF h # PtNull
     THEN [s EXCEPT !.mu.ent = [ent1 EXCEPT ![h].prev = e]]
     ELSE [s EXCEPT !.mu.ent = ent1,
                    !.mu.ptListsEnd[level] = e,
                    !.mu.ptLists[level] = e]

\* Maps the slot of entry e to table ptab.
mmPtabSetupEntry(s, e, ptab, level) ==
  [s EXCEPT !.mu.ent[e].inUse = TRUE,
            !.mu.ent[e].ptab = ptab,
            !.mu.ent[e].level = level]

\* The lookup loop of MmPtabGetCache from entry e on: the entry that maps
\* ptab, PtNull at the end of the list, -1 when the walk does not end.
RECURSIVE PtFind(_, _, _, _)
PtFind(c, e, ptab, fuel) ==
  IF e = PtNull THEN PtNull
  ELSE IF c.ent[e].ptab = ptab THEN e
  ELSE IF fuel = 0 THEN 0 - 1
  ELSE PtFind(c, c.ent[e].next, ptab, fuel - 1)

\* The eviction loop of MmPtabGetCache from level i on.  The inner loop
\* does not advance, so it leaves only through an entry not in use.
RECURSIVE PtEvict(_, _, _, _)
PtEvict(s, i, ptab, level) ==
  IF i > PtNumLevels THEN Halt(s, "assert_ptcache")
  ELSE IF s.mu.ptListsEnd[i] = PtNull THEN PtEvict(s, i + 1, ptab, level)
  ELSE IF s.mu.ent[s.mu.ptListsEnd[i]].inUse THEN Halt(s, "hang_evict")
  ELSE Bind(s.mu.ptListsEnd[i], LAMBDA curEnt :
         [mmPtabSetupEntry(
            mmPtabAddToList(mmPtabRemoveEntry(s, curEnt), curEnt, level),
            curEnt, ptab, level)
          EXCEPT !.mu.last.ret = curEnt])

MmPtabGetCache(s, ptab, level) ==
  Then(s, LAMBDA s0 :
    Bind(PtFind(s0.mu, s0.mu.ptLists[level], ptab, PtSlots), LAMBDA ent :
      IF ent < 0 THEN Halt(s0, "hang_ptfind")
      ELSE IF ent # PtNull
      THEN [s0 EXCEPT !.mu.ent[ent].inUse = TRUE, !.mu.last.ret = ent,
                      !.mu.last.hit = TRUE]
      ELSE IF s0.mu.freeCount # 0
      THEN Bind(s0.mu.ptFreeList, LAMBDA free :
             [mmPtabSetupEntry(
                mmPtabAddToList(mmPtabGetFree(s0), free, level),
                free, ptab, level)
              EXCEPT !.mu.last.ret = free])
      ELSE PtEvict(s0, 0, ptab, level)))

\* The inner loop of MmPtabReturnCache from entry e on.
RECURSIVE PtReturnWalk(_, _, _)
PtReturnWalk(s, e, fuel) ==
  IF e = PtNull THEN s
  ELSE IF fuel = 0 THEN Halt(s, "hang_ptreturn")
  ELSE IF ~s.mu.ent[e].inUse
  THEN Bind(mmPtabFreeEntry(mmPtabRemoveEntry(s, e), e), LAMBDA s1 :
         IF s1.mu.freeCount >= MM_PTAB_FREETARGET
         THEN [s1 EXCEPT !.mu.done = TRUE]
         ELSE PtReturnWalk(s1, s1.mu.ent[e].prev, fuel - 1))
  ELSE PtReturnWalk(s, s.mu.ent[e].prev, fuel - 1)

\* The outer loop of MmPtabReturnCache from level i on.
RECURSIVE PtReturnLevels(_, _)
PtReturnLevels(s, i) ==
  IF i > PtNumLevels \/ Halted(s) \/ s.mu.done THEN s
  ELSE PtReturnLevels(
         PtReturnWalk(s, s.mu.ptListsEnd[i], 2 * PtSlots), i + 1)

MmPtabReturnCache(s, cacheEnt) ==
  Then(s, LAMBDA s0 :
    Bind([s0 EXCEPT !.mu.ent[cacheEnt].inUse = FALSE], LAMBDA s1 :
      IF s1.mu.freeCount < MM_PTAB_MINFREE
      THEN PtReturnLevels(s1, 0) ELSE s1))

MmPtabFreeToCache(s, cacheEnt) ==
  Then(s, LAMBDA s0 :
    mmPtabFreeEntry(
      mmPtabRemoveEntry([s0 EXCEPT !.mu.ent[cacheEnt].inUse = FALSE],
                        cacheEnt),
      cacheEnt))

\* Zeroes the page at address ptab through an uncached slot.
MmMulZeroPage(s, ptab) ==
  Then(MmPtabGetCache(s, ptab, MM_PTAB_UNCACHED), LAMBDA s0 :
    MmPtabFreeToCache(s0, s0.mu.last.ret))

InitPtab ==
  /\ thread = InitThreads
  /\ ccb = InitCcb
  /\ nkThreadsLock = NkSpinUnlocked
  /\ nkTerminator = {}
  /\ halt = "none"
  /\ pc = "run"
  /\ ev = NoEv
  /\ hist = [clear |-> [t \in Tids |-> 0], ticks |-> 0]
  /\ plt = InitPlt
  /\ pm = InitPm
  /\ kv = InitKv
  /\ mu = InitPtCache

BeginPt(op, ptab, level) ==
  [Begin EXCEPT
     !.mu.done = FALSE,
     !.mu.last = [ op |-> op, ptab |-> ptab, level |-> level, ret |-> PtNull,
                   hit |-> FALSE,
                   was |-> [ inUse |-> {e \in PtEnts : mu.ent[e].inUse},
                             freeCount |-> mu.freeCount,
                             free |-> PtFreeSet(mu) ] ]]

PtabGetCache(ptab, level) ==
  /\ pc = "run"
  /\ Commit(MmPtabGetCache(BeginPt("get", ptab, level), ptab, level))

\* The caller returns an entry it holds.
PtabReturnCache(cacheEnt) ==
  /\ pc = "run"
  /\ mu.ent[cacheEnt].inUse
  /\ Commit(MmPtabReturnCache(BeginPt("return", PtNull, 0), cacheEnt))

ZeroPage(ptab) ==
  /\ pc = "run"
  /\ Commit(MmMulZeroPage(BeginPt("zero", ptab, MM_PTAB_UNCACHED), ptab))

NextPtab ==
  \/ \E ptab \in PtTabs, level \in 1 .. PtNumLevels : PtabGetCache(ptab, level)
  \/ \E cacheEnt \in PtEnts : PtabReturnCache(cacheEnt)
  \/ \E ptab \in PtTabs : ZeroPage(ptab)

SpecPtab == InitPtab /\ [][NextPtab]_vars

\* Entries of cache c that are not on the free list: their slots map a table.
PtCached(c) == PtEnts \ PtFreeSet(c)

\* C33: MmPtabGetCache returns the slot that already maps the table on the
\* requested level instead of taking a free slot or evicting one, so at no
\* time do two cached slots of the same level map the same table.
C33_OneSlotPerTable ==
  halt = "none" =>
    \A i, j \in PtCached(mu) :
      (/\ mu.ent[i].level = mu.ent[j].level
       /\ mu.ent[i].ptab = mu.ent[j].ptab) => i = j

\* C34: a MmPtabGetCache call made with the free list empty and a cached
\* slot not in use terminates, and a slot it maps anew was not in use before
\* the call.
C34_EvictionTerminates ==
  (/\ mu.last.op = "get"
   /\ mu.last.was.freeCount = 0
   /\ mu.last.was.inUse # PtEnts) =>
     /\ halt \notin {"hang_evict", "hang_ptfind", "assert_ptcache"}
     /\ (halt = "none" /\ ~mu.last.hit) => mu.last.ret \notin mu.last.was.inUse

\* The second part alone: no call maps anew a slot that was in use.
C34_NeverRemapsInUse ==
  (mu.last.op = "get" /\ halt = "none" /\ ~mu.last.hit) =>
     mu.last.ret \notin mu.last.was.inUse

====
